---- MODULE Spec2Model ----
(***************************************************************************)
(* The transduction engine of sumps.transducer: the orchestrators          *)
(* transduce / atransduce (transduce.py) driving a pipeline of reducers    *)
(* (operator/*.py) over a source.  A pipeline is the chain of reducer      *)
(* objects built by applying the composed operator factories to a          *)
(* terminal collector: pipeline[1] is the outermost reducer, the last      *)
(* element is the terminal collector.                                      *)
(***************************************************************************)
EXTENDS Integers, Sequences, FiniteSets, TLC

\* ---------------------------------------------------------------- bounds
MaxLen == 3      \* longest source
MaxItem == 2     \* source items are 1..MaxItem
MaxLimit == 2    \* largest take limit / batch size
MaxOther == 2    \* most turns other tasks get while one atransduce call is suspended

VARIABLES
    transducer,   \* argument: the composed operator factories, op1 first
    reducer,      \* argument: the terminal collector
    pipeline,     \* the reducer chain built by transducer(reducer)
    opstate,      \* private counters/buffers of each reducer of the chain
    iterable,     \* the source: its items, and where fetching raises (if at all)
    init,         \* the caller's init argument (_UNSET or a value)
    env,          \* sync or async engine, and how user callables behave
    accumulator,  \* local variable `accumulator`
    item,         \* loop variable `item`
    pos,          \* number of items pulled from the source so far
    pc,           \* position of the orchestrator
    exc,          \* exception in flight
    log,          \* history: the protocol calls made so far, in order
    result,       \* value returned to the caller
    previous      \* how the same call went under transduce, once atransduce re-runs it

vars == <<transducer, reducer, pipeline, opstate, iterable, init, env, accumulator, item, pos, pc, exc, log, result, previous>>

\* ------------------------------------------------------------ exceptions
\* An exception: its class, who raised it, the class and raiser of its
\* __cause__ (if any), and whether its class derives from BaseException only.
NoExc == [type |-> "none", by |-> "", cause |-> "", causeBy |-> "", base |-> FALSE]

Raise(type, by) == [NoExc EXCEPT !.type = type, !.by = by]

\* `raise RuntimeError(...) from e`: a new exception whose __cause__ is e
RaiseFrom(type, by, e) ==
    [NoExc EXCEPT !.type = type, !.by = by, !.cause = e.type, !.causeBy = e.by]

\* ------------------------------------------------------- Reduced sentinel
\* An accumulator is a Python object under `red` nested Reduced boxes: the
\* object's class (type) and what it holds (val), in order for a list or a
\* tuple ("seq").  The other classes are those a caller can hand in as init:
\* an int (nothing to hold), a set and a dict (val lists the members / keys).
Object(type, val) == [red |-> 0, val |-> val, type |-> type]

Plain(seq) == Object("seq", seq)

\* len(result) works
Sized(acc) == acc.red = 0 /\ acc.type \in {"seq", "set", "dict"}

\* hasattr(result, '__getitem__')
Subscriptable(acc) == acc.red = 0 /\ acc.type \in {"seq", "dict"}

Reduced(acc) == [acc EXCEPT !.red = @ + 1]

\* mutant: the orchestrator never notices a Reduced box
IsReducedNever(acc) == FALSE

\* isinstance(accumulator, Reduced), the orchestrator's test after each step
IsReduced(acc) == acc.red > 0

\* Reduced.value
Value(acc) == [acc EXCEPT !.red = @ - 1]

\* ------------------------------------------------------------ log events
\* A call of method ev on reducer lvl of the chain (lvl 0: the orchestrator's
\* own doings).  A step event tells whether it returned a Reduced box, what
\* it returned, and whether the accumulator it was given was a Reduced box; a
\* complete event holds the accumulator it was given.
Ev(ev, lvl) == [ev |-> ev, lvl |-> lvl, red |-> FALSE, acc |-> Plain(<<>>), boxed |-> FALSE]

\* what one protocol call hands back: reducer states, accumulator, exception
\* raised (NoExc when it returned), and the calls it made, in order
Ret(st, acc, e, calls) == [st |-> st, acc |-> acc, exc |-> e, calls |-> calls]

\* the object a coroutine function returns when called without await
CoroObj == -1

\* --------------------------------------------------------- user callables
\* x*2, x*x (tests/fn/test_transducer.py), and the tests' predicates
Transform(fn, x) ==
    CASE fn = "double" -> x * 2
      [] fn = "square" -> x * x
      [] fn = "odd"    -> x % 2 # 0
      [] fn = "gt5"    -> x > 5
      [] fn = "truthy" -> x # 0
      [] OTHER         -> x

\* One call of a user callable: it raises env.excType on the item
\* env.badItem, and TypeError on an operand it cannot compute with.
UserCall(fn, x) ==
    IF x = CoroObj THEN [raises |-> TRUE, type |-> "TypeError", val |-> 0]
    ELSE IF env.excType # "none" /\ x = env.badItem THEN [raises |-> TRUE, type |-> env.excType, val |-> 0]
    ELSE [raises |-> FALSE, type |-> "none", val |-> Transform(fn, x)]

\* Mapping.step / Filtering.step call the callable directly.
SyncOutcome(c) ==
    [raises |-> c.raises, type |-> c.type, val |-> c.val, ncalls |-> 1,
        unawaited |-> FALSE, raised |-> c.raises]

SyncInvoke(fn, x) == SyncOutcome(UserCall(fn, x))

\* AsyncMapping.step / AsyncFiltering.step: `await f(item)`, and on TypeError
\* the plain call `f(item)`.
\*  - coroutine function: the await runs the body; a TypeError it raises is
\*    caught and the fallback call returns an un-awaited coroutine object;
\*  - plain function: the first call runs the body, awaiting its value raises
\*    TypeError, and the fallback runs the body a second time.
\* c is what one run of the callable's body does
AsyncOutcome(c) ==
    IF env.coro
    THEN IF c.raises /\ c.type = "TypeError"
         THEN [raises |-> FALSE, type |-> "none", val |-> 0, ncalls |-> 2,
               unawaited |-> TRUE, raised |-> TRUE]
         ELSE [raises |-> c.raises, type |-> c.type, val |-> c.val, ncalls |-> 1,
               unawaited |-> FALSE, raised |-> c.raises]
    ELSE IF c.raises /\ c.type # "TypeError"
         THEN [raises |-> TRUE, type |-> c.type, val |-> 0, ncalls |-> 1,
               unawaited |-> FALSE, raised |-> TRUE]
         ELSE [raises |-> c.raises, type |-> c.type, val |-> c.val, ncalls |-> 2,
               unawaited |-> FALSE, raised |-> c.raises]

AsyncInvoke(fn, x) == AsyncOutcome(UserCall(fn, x))

Invoke(fn, x) == IF env.async THEN AsyncInvoke(fn, x) ELSE SyncInvoke(fn, x)

\* what invocation c of the callable held by reducer i adds to the log: its
\* calls, and whether the callable raised
FnCalls(i, c) ==
    [k \in 1..c.ncalls |-> Ev("fn", i)] \o (IF c.raised THEN <<Ev("fnraise", i)>> ELSE <<>>)

\* --------------------------------------------------------------- reducers
\* A reducer of the chain: its class, its integer argument (limit, size)
\* and the name of its callable.
Op(kind, n, fn) == [kind |-> kind, n |-> n, fn |-> fn]

\* private state of one reducer object as its constructor leaves it
\* (Take._counter, Batching._pending, ExpectingSingle._num_steps)
FreshState == [counter |-> 0, pending |-> <<>>, num_steps |-> 0]

\* Enumerating.__init__ starts its counter at `start`
Constructed(op) ==
    IF op.kind = "enumerating" THEN [FreshState EXCEPT !.counter = op.n] ELSE FreshState

RECURSIVE InitialAt(_, _, _)
RECURSIVE StepAt(_, _, _, _, _)
RECURSIVE CompleteAt(_, _, _, _)

\* ---- terminal collectors
AppendingInitial(p, st, i) == Ret(st, Plain(<<>>), NoExc, <<>>)

\* mutant: result.insert(0, item) in place of result.append(item)
AppendingStepPrepends(p, st, i, acc, x) ==
    IF acc.red > 0 \/ acc.type # "seq"
    THEN Ret(st, acc, Raise("AttributeError", "appending"), <<>>)
    ELSE Ret(st, Plain(<<x>> \o acc.val), NoExc, <<>>)

\* result.append(item): a Reduced box, an int, a set, a dict have no append
AppendingStep(p, st, i, acc, x) ==
    IF acc.red > 0 \/ acc.type # "seq"
    THEN Ret(st, acc, Raise("AttributeError", "appending"), <<>>)
    ELSE Ret(st, Plain(Append(acc.val, x)), NoExc, <<>>)

AppendingComplete(p, st, i, acc) == Ret(st, acc, NoExc, <<>>)

ConjoiningInitial(p, st, i) == Ret(st, Plain(<<>>), NoExc, <<>>)

\* result + (item,): only a tuple can be added to a tuple
ConjoiningStep(p, st, i, acc, x) ==
    IF acc.red > 0 \/ acc.type # "seq"
    THEN Ret(st, acc, Raise("TypeError", "conjoining"), <<>>)
    ELSE Ret(st, Plain(acc.val \o <<x>>), NoExc, <<>>)

ConjoiningComplete(p, st, i, acc) == Ret(st, acc, NoExc, <<>>)

\* the tests' EarlyTerm reducer: a plain class (no enter/exit hooks) that
\* appends and returns Reduced once it holds two items
EarlyTermLen == 2

EarlyTermStep(p, st, i, acc, x) ==
    IF acc.red > 0 \/ acc.type # "seq"
    THEN Ret(st, acc, Raise("AttributeError", "earlyterm"), <<>>)
    ELSE LET r == Plain(Append(acc.val, x))
         IN Ret(st, IF Len(r.val) >= EarlyTermLen THEN Reduced(r) ELSE r, NoExc, <<>>)

EarlyTermInitial(p, st, i) == Ret(st, Plain(<<>>), NoExc, <<>>)

EarlyTermComplete(p, st, i, acc) == Ret(st, acc, NoExc, <<>>)

\* ---- take
\* mutant: initial() delegates without resetting the counter
TakeInitialKeepsCounter(p, st, i) == InitialAt(p, st, i + 1)

TakeInitial(p, st, i) == InitialAt(p, [st EXCEPT ![i].counter = 0], i + 1)

\* mutant: the box is put on one item late (count <= limit keeps going)
TakeStepOneLate(p, st, i, acc, x) ==
    IF p[i].n <= 0
    THEN Ret(st, Reduced(acc), NoExc, <<>>)
    ELSE LET st1 == [st EXCEPT ![i].counter = @ + 1]
             d == StepAt(p, st1, i + 1, acc, x)
         IN IF d.exc # NoExc THEN d
            ELSE IF st1[i].counter <= p[i].n THEN d
            ELSE [d EXCEPT !.acc = Reduced(d.acc)]

\* mutant: no test of limit <= 0 before delegating
TakeStepNoGuard(p, st, i, acc, x) ==
    LET st1 == [st EXCEPT ![i].counter = @ + 1]
        d == StepAt(p, st1, i + 1, acc, x)
    IN IF d.exc # NoExc THEN d
       ELSE IF st1[i].counter < p[i].n THEN d
       ELSE [d EXCEPT !.acc = Reduced(d.acc)]

TakeStep(p, st, i, acc, x) ==
    IF p[i].n <= 0
    THEN Ret(st, Reduced(acc), NoExc, <<>>)
    ELSE LET st1 == [st EXCEPT ![i].counter = @ + 1]
             d == StepAt(p, st1, i + 1, acc, x)
         IN IF d.exc # NoExc THEN d
            ELSE IF st1[i].counter < p[i].n THEN d
            ELSE [d EXCEPT !.acc = Reduced(d.acc)]

TakeComplete(p, st, i, acc) == CompleteAt(p, st, i + 1, acc)

\* ---- mapping
MappingInitial(p, st, i) == InitialAt(p, st, i + 1)

MappingStep(p, st, i, acc, x) ==
    LET c == Invoke(p[i].fn, x)
    IN IF c.raises
       THEN Ret(st, acc, Raise(c.type, "user"), FnCalls(i, c))
       ELSE LET transformed == IF c.unawaited THEN CoroObj ELSE c.val
                d == StepAt(p, st, i + 1, acc, transformed)
            IN [d EXCEPT !.calls = FnCalls(i, c) \o @]

MappingComplete(p, st, i, acc) == CompleteAt(p, st, i + 1, acc)

\* ---- filtering
FilteringInitial(p, st, i) == InitialAt(p, st, i + 1)

FilteringStep(p, st, i, acc, x) ==
    LET c == Invoke(p[i].fn, x)
    IN IF c.raises
       THEN Ret(st, acc, Raise(c.type, "user"), FnCalls(i, c))
       ELSE LET should_include == c.unawaited \/ c.val
            IN IF should_include
               THEN LET d == StepAt(p, st, i + 1, acc, x)
                    IN [d EXCEPT !.calls = FnCalls(i, c) \o @]
               ELSE Ret(st, acc, NoExc, FnCalls(i, c))

FilteringComplete(p, st, i, acc) == CompleteAt(p, st, i + 1, acc)

\* ---- batching
BatchingInitial(p, st, i) == InitialAt(p, [st EXCEPT ![i].pending = <<>>], i + 1)

\* mutant: the full batch is delegated but the buffer is not replaced
BatchingStepKeepsPending(p, st, i, acc, x) ==
    LET st1 == [st EXCEPT ![i].pending = Append(@, x)]
    IN IF Len(st1[i].pending) = p[i].n
       THEN StepAt(p, st1, i + 1, acc, st1[i].pending)
       ELSE Ret(st1, acc, NoExc, <<>>)

BatchingStep(p, st, i, acc, x) ==
    LET st1 == [st EXCEPT ![i].pending = Append(@, x)]
    IN IF Len(st1[i].pending) = p[i].n
       THEN StepAt(p, [st1 EXCEPT ![i].pending = <<>>], i + 1, acc, st1[i].pending)
       ELSE Ret(st1, acc, NoExc, <<>>)

\* `result = self._reducer.step(result, ...)` followed by
\* `return self._reducer.complete(result)`: d is what the step handed back
ThenComplete(p, i, d) ==
    IF d.exc # NoExc THEN d
    ELSE [CompleteAt(p, d.st, i + 1, d.acc) EXCEPT !.calls = d.calls \o @]

\* mutant: complete forgets the pending partial batch
BatchingCompleteNoFlush(p, st, i, acc) == CompleteAt(p, st, i + 1, acc)

\* one more `self._reducer.step(result, item)` on what an earlier call handed back
ThenStep(p, i, x, d) ==
    IF d.exc # NoExc THEN d
    ELSE [StepAt(p, d.st, i + 1, d.acc, x) EXCEPT !.calls = d.calls \o @]

BatchingComplete(p, st, i, acc) ==
    IF st[i].pending # <<>>
    THEN ThenComplete(p, i, StepAt(p, st, i + 1, acc, st[i].pending))
    ELSE CompleteAt(p, st, i + 1, acc)

\* ---- expecting_single
ExpectingSingleInitial(p, st, i) == InitialAt(p, [st EXCEPT ![i].num_steps = 0], i + 1)

\* mutant: the count is kept but never tested in step
ExpectingSingleStepNoCheck(p, st, i, acc, x) ==
    StepAt(p, [st EXCEPT ![i].num_steps = @ + 1], i + 1, acc, x)

ExpectingSingleStep(p, st, i, acc, x) ==
    LET st1 == [st EXCEPT ![i].num_steps = @ + 1]
    IN IF st1[i].num_steps > 1
       THEN Ret(st1, acc, Raise("RuntimeError", "expecting_single"), <<>>)
       ELSE StepAt(p, st1, i + 1, acc, x)

ExpectingSingleComplete(p, st, i, acc) ==
    IF st[i].num_steps < 1
    THEN Ret(st, acc, Raise("RuntimeError", "expecting_single"), <<>>)
    ELSE CompleteAt(p, st, i + 1, acc)

\* ---- drop
DropInitial(p, st, i) == InitialAt(p, [st EXCEPT ![i].counter = 0], i + 1)

\* mutant: the counter is compared with <= (one item too many is skipped)
DropStepOneMore(p, st, i, acc, x) ==
    IF st[i].counter <= p[i].n
    THEN Ret([st EXCEPT ![i].counter = @ + 1], acc, NoExc, <<>>)
    ELSE StepAt(p, st, i + 1, acc, x)

DropStep(p, st, i, acc, x) ==
    IF st[i].counter < p[i].n
    THEN Ret([st EXCEPT ![i].counter = @ + 1], acc, NoExc, <<>>)
    ELSE StepAt(p, st, i + 1, acc, x)

DropComplete(p, st, i, acc) == CompleteAt(p, st, i + 1, acc)

\* ---- nth
NthInitial(p, st, i) == InitialAt(p, [st EXCEPT ![i].counter = 0], i + 1)

\* mutant: what the delegated step handed back is returned without the box
ThenReducedNoBox(d) == d

\* `Reduced(self._reducer.step(result, item))`: d is what the step handed back
ThenReduced(d) == IF d.exc # NoExc THEN d ELSE [d EXCEPT !.acc = Reduced(d.acc)]

\* mutant: the item after the n-th is the one delegated
NthStepOneLate(p, st, i, acc, x) ==
    LET st1 == [st EXCEPT ![i].counter = @ + 1]
    IN IF st1[i].counter = p[i].n + 1
       THEN ThenReduced(StepAt(p, st1, i + 1, acc, x))
       ELSE Ret(st1, acc, NoExc, <<>>)

NthStep(p, st, i, acc, x) ==
    LET st1 == [st EXCEPT ![i].counter = @ + 1]
    IN IF st1[i].counter = p[i].n
       THEN ThenReduced(StepAt(p, st1, i + 1, acc, x))
       ELSE Ret(st1, acc, NoExc, <<>>)

NthComplete(p, st, i, acc) ==
    IF st[i].counter < p[i].n
    THEN ThenComplete(p, i, StepAt(p, st, i + 1, acc, p[i].default))
    ELSE CompleteAt(p, st, i + 1, acc)

\* ---- first_true
FirstTrueInitial(p, st, i) == InitialAt(p, st, i + 1)

\* mutant: the delegated step's result is handed back without the box
FirstTrueStepNoBox(p, st, i, acc, x) ==
    LET c == Invoke(p[i].fn, x)
    IN IF c.raises
       THEN Ret(st, acc, Raise(c.type, "user"), FnCalls(i, c))
       ELSE IF c.unawaited \/ c.val
       THEN [StepAt(p, st, i + 1, acc, x) EXCEPT !.calls = FnCalls(i, c) \o @]
       ELSE Ret(st, acc, NoExc, FnCalls(i, c))

FirstTrueStep(p, st, i, acc, x) ==
    LET c == Invoke(p[i].fn, x)
    IN IF c.raises
       THEN Ret(st, acc, Raise(c.type, "user"), FnCalls(i, c))
       ELSE IF c.unawaited \/ c.val
       THEN [ThenReduced(StepAt(p, st, i + 1, acc, x)) EXCEPT !.calls = FnCalls(i, c) \o @]
       ELSE Ret(st, acc, NoExc, FnCalls(i, c))

FirstTrueComplete(p, st, i, acc) == CompleteAt(p, st, i + 1, acc)

\* ---- repeating
RepeatingInitial(p, st, i) == InitialAt(p, st, i + 1)

\* `for _ in range(num_times): result = self._reducer.step(result, item)`:
\* k rounds are left, d is what the rounds so far handed back
RECURSIVE RepeatRounds(_, _, _, _, _)
RepeatRounds(p, i, x, k, d) ==
    IF k <= 0 \/ d.exc # NoExc THEN d
    ELSE RepeatRounds(p, i, x, k - 1, ThenStep(p, i, x, d))

\* mutant: one round too many (range(num_times + 1))
RepeatingStepOnceMore(p, st, i, acc, x) ==
    RepeatRounds(p, i, x, p[i].n + 1, Ret(st, acc, NoExc, <<>>))

RepeatingStep(p, st, i, acc, x) ==
    RepeatRounds(p, i, x, p[i].n, Ret(st, acc, NoExc, <<>>))

RepeatingComplete(p, st, i, acc) == CompleteAt(p, st, i + 1, acc)

\* ---- enumerating
EnumeratingInitial(p, st, i) == InitialAt(p, [st EXCEPT ![i].counter = p[i].n], i + 1)

\* mutant: the index is handed on but the counter is never incremented
EnumeratingStepNoIncrement(p, st, i, acc, x) ==
    StepAt(p, st, i + 1, acc, <<st[i].counter, x>>)

\* `index = self._counter; self._counter += 1`, then the tuple (index, item)
EnumeratingStep(p, st, i, acc, x) ==
    StepAt(p, [st EXCEPT ![i].counter = @ + 1], i + 1, acc, <<st[i].counter, x>>)

EnumeratingComplete(p, st, i, acc) == CompleteAt(p, st, i + 1, acc)

\* ---- take_last / drop_last
TakeLastInitial(p, st, i) == InitialAt(p, st, i + 1)

TakeLastStep(p, st, i, acc, x) == StepAt(p, st, i + 1, acc, x)

\* `self._reducer.complete(result[a:b])`: a list or a tuple gives the items
\* a..b-1; a set is not subscriptable (TypeError); a dict looks the slice up
\* as a key (slices are hashable from Python 3.12 on, the version the
\* sources' syntax needs) and raises KeyError
CompleteSliced(p, st, i, acc, a, b) ==
    IF acc.type = "seq"
    THEN CompleteAt(p, st, i + 1, [acc EXCEPT !.val = SubSeq(acc.val, a + 1, b)])
    ELSE Ret(st, acc, Raise(IF acc.type = "dict" THEN "KeyError" ELSE "TypeError", "slice"), <<>>)

\* `empty = result[:0] if hasattr(result, '__getitem__') else
\* self._reducer.initial()` and `return self._reducer.complete(empty)`
CompleteEmpty(p, st, i, acc) ==
    IF Subscriptable(acc)
    THEN CompleteSliced(p, st, i, acc, 0, 0)
    ELSE ThenComplete(p, i, InitialAt(p, st, i + 1))

\* `except (TypeError, AttributeError): return self._reducer.complete(result)`
\* around the whole body of complete: d is what the body did, acc the
\* accumulator complete was given
OrUnchanged(p, i, acc, d) ==
    IF d.exc.type \in {"TypeError", "AttributeError"}
    THEN [CompleteAt(p, d.st, i + 1, acc) EXCEPT !.calls = d.calls \o @]
    ELSE d

\* mutant: the slice is taken from the front (result[:limit])
TakeLastTryFromFront(p, st, i, acc) ==
    IF ~Sized(acc) THEN Ret(st, acc, Raise("TypeError", "len"), <<>>)
    ELSE IF p[i].n <= 0 THEN CompleteEmpty(p, st, i, acc)
    ELSE IF Len(acc.val) >= p[i].n
    THEN CompleteSliced(p, st, i, acc, 0, p[i].n)
    ELSE CompleteAt(p, st, i + 1, acc)

\* the `try` body of TakeLast.complete
TakeLastTry(p, st, i, acc) ==
    IF ~Sized(acc) THEN Ret(st, acc, Raise("TypeError", "len"), <<>>)
    ELSE IF p[i].n <= 0 THEN CompleteEmpty(p, st, i, acc)
    ELSE IF Len(acc.val) >= p[i].n
    THEN CompleteSliced(p, st, i, acc, Len(acc.val) - p[i].n, Len(acc.val))
    ELSE CompleteAt(p, st, i + 1, acc)

TakeLastComplete(p, st, i, acc) == OrUnchanged(p, i, acc, TakeLastTry(p, st, i, acc))

DropLastInitial(p, st, i) == InitialAt(p, st, i + 1)

DropLastStep(p, st, i, acc, x) == StepAt(p, st, i + 1, acc, x)

\* mutant: the test is size >= limit, and one item more is cut
DropLastTryOneMore(p, st, i, acc) ==
    IF ~Sized(acc) THEN Ret(st, acc, Raise("TypeError", "len"), <<>>)
    ELSE IF p[i].n <= 0 THEN CompleteAt(p, st, i + 1, acc)
    ELSE IF Len(acc.val) > p[i].n + 1
    THEN CompleteSliced(p, st, i, acc, 0, Len(acc.val) - p[i].n - 1)
    ELSE CompleteEmpty(p, st, i, acc)

\* the `try` body of DropLast.complete
DropLastTry(p, st, i, acc) ==
    IF ~Sized(acc) THEN Ret(st, acc, Raise("TypeError", "len"), <<>>)
    ELSE IF p[i].n <= 0 THEN CompleteAt(p, st, i + 1, acc)
    ELSE IF Len(acc.val) > p[i].n
    THEN CompleteSliced(p, st, i, acc, 0, Len(acc.val) - p[i].n)
    ELSE CompleteEmpty(p, st, i, acc)

DropLastComplete(p, st, i, acc) == OrUnchanged(p, i, acc, DropLastTry(p, st, i, acc))

\* ---- dispatch on the class of reducer i; every call is logged
InitialAt(p, st, i) ==
    LET k == p[i].kind
        r == CASE k = "take"       -> TakeInitial(p, st, i)
               [] k = "mapping"    -> MappingInitial(p, st, i)
               [] k = "filtering"  -> FilteringInitial(p, st, i)
               [] k = "batching"   -> BatchingInitial(p, st, i)
               [] k = "drop"       -> DropInitial(p, st, i)
               [] k = "nth"        -> NthInitial(p, st, i)
               [] k = "first_true" -> FirstTrueInitial(p, st, i)
               [] k = "repeating"  -> RepeatingInitial(p, st, i)
               [] k = "enumerating" -> EnumeratingInitial(p, st, i)
               [] k = "take_last"  -> TakeLastInitial(p, st, i)
               [] k = "drop_last"  -> DropLastInitial(p, st, i)
               [] k = "conjoining" -> ConjoiningInitial(p, st, i)
               [] k = "expecting_single" -> ExpectingSingleInitial(p, st, i)
               [] k = "earlyterm"  -> EarlyTermInitial(p, st, i)
               [] OTHER            -> AppendingInitial(p, st, i)
    IN [r EXCEPT !.calls = <<Ev("initial", i)>> \o @]

StepAt(p, st, i, acc, x) ==
    LET k == p[i].kind
        r == CASE k = "take"       -> TakeStep(p, st, i, acc, x)
               [] k = "mapping"    -> MappingStep(p, st, i, acc, x)
               [] k = "filtering"  -> FilteringStep(p, st, i, acc, x)
               [] k = "batching"   -> BatchingStep(p, st, i, acc, x)
               [] k = "drop"       -> DropStep(p, st, i, acc, x)
               [] k = "nth"        -> NthStep(p, st, i, acc, x)
               [] k = "first_true" -> FirstTrueStep(p, st, i, acc, x)
               [] k = "repeating"  -> RepeatingStep(p, st, i, acc, x)
               [] k = "enumerating" -> EnumeratingStep(p, st, i, acc, x)
               [] k = "take_last"  -> TakeLastStep(p, st, i, acc, x)
               [] k = "drop_last"  -> DropLastStep(p, st, i, acc, x)
               [] k = "conjoining" -> ConjoiningStep(p, st, i, acc, x)
               [] k = "expecting_single" -> ExpectingSingleStep(p, st, i, acc, x)
               [] k = "earlyterm"  -> EarlyTermStep(p, st, i, acc, x)
               [] OTHER            -> AppendingStep(p, st, i, acc, x)
        call == [Ev("step", i) EXCEPT !.red = (r.exc = NoExc /\ r.acc.red > 0),
                                      !.acc = r.acc, !.boxed = acc.red > 0]
    IN [r EXCEPT !.calls = <<call>> \o @]

CompleteAt(p, st, i, acc) ==
    LET k == p[i].kind
        r == CASE k = "take"       -> TakeComplete(p, st, i, acc)
               [] k = "mapping"    -> MappingComplete(p, st, i, acc)
               [] k = "filtering"  -> FilteringComplete(p, st, i, acc)
               [] k = "batching"   -> BatchingComplete(p, st, i, acc)
               [] k = "drop"       -> DropComplete(p, st, i, acc)
               [] k = "nth"        -> NthComplete(p, st, i, acc)
               [] k = "first_true" -> FirstTrueComplete(p, st, i, acc)
               [] k = "repeating"  -> RepeatingComplete(p, st, i, acc)
               [] k = "enumerating" -> EnumeratingComplete(p, st, i, acc)
               [] k = "take_last"  -> TakeLastComplete(p, st, i, acc)
               [] k = "drop_last"  -> DropLastComplete(p, st, i, acc)
               [] k = "conjoining" -> ConjoiningComplete(p, st, i, acc)
               [] k = "expecting_single" -> ExpectingSingleComplete(p, st, i, acc)
               [] k = "earlyterm"  -> EarlyTermComplete(p, st, i, acc)
               [] OTHER            -> AppendingComplete(p, st, i, acc)
    IN [r EXCEPT !.calls = <<[Ev("complete", i) EXCEPT !.acc = acc]>> \o @]

\* ------------------------------------------------------------- the inputs
Items == 1..MaxItem

RECURSIVE SeqsUpTo(_, _)
SeqsUpTo(S, n) ==
    IF n = 0 THEN {<<>>}
    ELSE LET shorter == SeqsUpTo(S, n - 1)
         IN shorter \cup {Append(s, x) : s \in {t \in shorter : Len(t) = n - 1}, x \in S}

Sources == SeqsUpTo(Items, MaxLen)

Appending == Op("appending", 0, "")
Conjoining == Op("conjoining", 0, "")
EarlyTerm == Op("earlyterm", 0, "")
\* a list collector that holds a resource between its enter and exit hooks
Holding == Op("holding", 0, "")

take(limit) == Op("take", limit, "")
mapping(transform) == Op("mapping", 0, transform)
filtering(predicate) == Op("filtering", 0, predicate)
batching(size) == Op("batching", size, "")
expecting_single == Op("expecting_single", 0, "")
drop(limit) == Op("drop", limit, "")
nth(n, default) == [default |-> default] @@ Op("nth", n, "")
\* `predicate = _true if predicate is None else predicate`, _true being bool(item)
first_true(predicate) == Op("first_true", 0, IF predicate = "None" THEN "truthy" ELSE predicate)
repeating(num_times) == Op("repeating", num_times, "")
enumerating(start) == Op("enumerating", start, "")

take_last(limit) == Op("take_last", limit, "")

drop_last(limit) == Op("drop_last", limit, "")

\* __name__ of the factory function an operator call returns
\* ("take_transducer", "mapping_transducer", ...): one name per operator
FactoryName(f) == f.kind

\* The function a name resolves to in the module Compose.build generates:
\* build registers reversed(funcs) in a symbol table keyed by __name__, a
\* name already present keeps its first registration (ignore_duplicate), so
\* a name stands for the LAST function of funcs that bears it.
Registered(funcs, name) ==
    funcs[CHOOSE j \in DOMAIN funcs :
              /\ FactoryName(funcs[j]) = name
              /\ \A k \in DOMAIN funcs : FactoryName(funcs[k]) = name => k <= j]

\* compose(op1, ..., opN)(reducer): no function is the identity, one is
\* returned as it is, and more are compiled into
\* `name1(reducer = name2(reducer = ... nameN(reducer = reducer)))`, each
\* name looked up in the symbol table when the compiled function runs.
compose(funcs, r) ==
    IF Len(funcs) <= 1 THEN funcs \o <<r>>
    ELSE [i \in DOMAIN funcs |-> Registered(funcs, FactoryName(funcs[i]))] \o <<r>>

HasCallable(p) ==
    \E i \in DOMAIN p :
        \/ p[i].kind \in {"mapping", "filtering"}
        \/ p[i].kind = "first_true" /\ p[i].fn # "truthy"

\* hasattr(pipeline, '__enter__') / '__exit__': every library reducer
\* inherits the hooks from BaseTransducer; the tests' plain class has none.
HasHooks(p) == p[1].kind # "earlyterm"

Operators ==
    {take(n) : n \in (-1)..MaxLimit} \cup {batching(n) : n \in 1..MaxLimit}
        \cup {mapping("double"), filtering("odd"), expecting_single}

\* items a reducer hands downstream are of the type the downstream's
\* callable takes: no batch reaches a transform or a predicate
WellTyped(ops) ==
    \A i, j \in DOMAIN ops :
        (i < j /\ ops[i].kind = "batching") => ops[j].kind \notin {"mapping", "filtering"}

\* the second operator of the composed pairs
Inner == {take(1), batching(2), mapping("double"), filtering("odd"), expecting_single}

\* one operator over either collector, compose(op1, op2) over the list
\* collector, and the identity transducer over the tests' EarlyTerm reducer
Calls ==
    {[transducer |-> ops, reducer |-> r] :
         ops \in SeqsUpTo(Operators, 1), r \in {Appending, Conjoining}}
      \cup {[transducer |-> ops, reducer |-> Appending] :
               ops \in {o \in {<<a, b>> : a \in Operators, b \in Inner} : WellTyped(o)}}
      \cup {[transducer |-> <<>>, reducer |-> EarlyTerm]}

\* How a run can go wrong, at most one way per run: the source raises on
\* its k-th fetch (an Exception, or a BaseException such as a cancellation),
\* or the user callables raise on one item.
NoFault == [failAt |-> 0, base |-> FALSE, badItem |-> 0, excType |-> "none"]

Faults(p, s) ==
    {NoFault}
        \cup {[NoFault EXCEPT !.failAt = k, !.base = b] : k \in 1..(Len(s) + 1), b \in BOOLEAN}
        \cup IF HasCallable(p)
             THEN {[NoFault EXCEPT !.badItem = x, !.excType = t] :
                       x \in Items, t \in {"ValueError", "TypeError"}}
             ELSE {}

\* transduce with plain callables; atransduce with plain or coroutine callables
Engines(p) ==
    {[async |-> FALSE, coro |-> FALSE], [async |-> TRUE, coro |-> FALSE]}
        \cup IF HasCallable(p) THEN {[async |-> TRUE, coro |-> TRUE]} ELSE {}

Unset == [given |-> FALSE, value |-> <<>>, type |-> "seq"]

\* init=[0]
Inits == {Unset, [given |-> TRUE, value |-> <<0>>, type |-> "seq"]}

\* no earlier run to compare with
NoRun == [pc |-> "none", result |-> Plain(<<>>), exc |-> NoExc]

InitWith(CS, SS, IS) ==
    \E c \in CS, s \in SS :
      \E f \in Faults(c.transducer, s), e \in Engines(c.transducer), i \in IS :
        /\ (i.given => f = NoFault)
        /\ transducer = c.transducer
        /\ reducer = c.reducer
        /\ pipeline = <<>>
        /\ opstate = <<>>
        /\ iterable = [items |-> s, failAt |-> f.failAt, base |-> f.base, endless |-> FALSE]
        /\ init = i
        /\ env = [async |-> e.async, coro |-> e.coro, badItem |-> f.badItem,
                  excType |-> f.excType]
        /\ accumulator = Plain(<<>>)
        /\ item = 0
        /\ pos = 0
        /\ pc = "factory"
        /\ exc = NoExc
        /\ log = <<>>
        /\ result = Plain(<<>>)
        /\ previous = NoRun

InitFrom(CS, SS) == InitWith(CS, SS, Inits)

Init == InitFrom(Calls, Sources)

\* ------------------------------------------------------- the orchestrator
\* The caller evaluates the operator calls of the transducer argument
\* (`take(2)`, `batching(0)`, ...): each factory defines a closure over its
\* arguments and returns it; no factory looks at its arguments.
CallFactories ==
    /\ pc = "factory"
    /\ pc' = "build"
    /\ UNCHANGED <<previous, transducer, reducer, pipeline, opstate, iterable, init, env, accumulator, item, pos, exc, log, result>>

\* the constructor of the reducer class raises ValueError on these arguments
\* (Batching.__init__: size < 1; Repeating.__init__: num_times < 0)
ConstructorRaises(op) ==
    \/ op.kind = "batching" /\ op.n < 1
    \/ op.kind = "repeating" /\ op.n < 0

\* `pipeline = transducer(reducer)` (85 / 186): every constructor runs; an
\* exception of a constructor is re-raised as TypeError (86-87), outside the
\* `try` of the item loop
BuildPipeline ==
    /\ pc = "build"
    /\ IF \E i \in DOMAIN transducer : ConstructorRaises(compose(transducer, reducer)[i])
       THEN /\ exc' = RaiseFrom("TypeError", "transduce", Raise("ValueError", "__init__"))
            /\ pc' = "raised"
            /\ UNCHANGED <<pipeline, opstate>>
       ELSE /\ pipeline' = compose(transducer, reducer)
            /\ opstate' = [k \in DOMAIN pipeline' |-> Constructed(pipeline'[k])]
            /\ pc' = "initial"
            /\ UNCHANGED exc
    /\ UNCHANGED <<previous, transducer, reducer, iterable, init, env, accumulator, item, pos, log, result>>

\* mutant: pipeline.initial() is called although the caller gave init
InitialAccumulatorAlwaysCalls ==
    LET r == InitialAt(pipeline, opstate, 1)
    IN IF init.given THEN [r EXCEPT !.acc = Object(init.type, init.value)] ELSE r

\* mutant: the caller's init is ignored
InitialAccumulatorIgnoresInit == InitialAt(pipeline, opstate, 1)

\* the starting accumulator (90-96 / 191-197): pipeline.initial() unless
\* the caller gave init
InitialAccumulator ==
    IF init.given
    THEN Ret(opstate, Object(init.type, init.value), NoExc, <<>>)
    ELSE InitialAt(pipeline, opstate, 1)

Initialize ==
    /\ pc = "initial"
    /\ LET r == InitialAccumulator
       IN /\ accumulator' = r.acc
          /\ opstate' = r.st
          /\ log' = log \o r.calls
    /\ pc' = "enter"
    /\ UNCHANGED <<previous, transducer, reducer, pipeline, iterable, init, env, item, pos, exc, result>>

\* What a call of the enter / exit hook of reducer i does: the library's
\* classes inherit `return self` and `pass` from BaseTransducer, and a class
\* with hooks of its own runs them; neither calls a hook of the reducer it wraps.
EnterAt(p, i) == <<Ev("enter", i)>>

ExitAt(p, i) == <<Ev("exit", i)>>

\* `with pipeline:` (101-102 / 202-203): pipeline.__enter__()
Enter ==
    /\ pc = "enter"
    /\ log' = IF HasHooks(pipeline) THEN Append(log, Ev("enter", 0)) \o EnterAt(pipeline, 1) ELSE log
    /\ pc' = "fetch"
    /\ UNCHANGED <<previous, transducer, reducer, pipeline, opstate, iterable, init, env, accumulator, item, pos, exc, result>>

\* the k-th item of the source: of a sequence, or of itertools.cycle over
\* it, which never ends
ItemAt(k) ==
    IF iterable.endless THEN iterable.items[((k - 1) % Len(iterable.items)) + 1]
    ELSE iterable.items[k]

\* the model follows a call over an endless source for this many items
MaxPulls == MaxLen + MaxLimit

\* mutant: the next item is fetched while the step for the last one is
\* still to be made
FetchAhead ==
    /\ pc \in {"fetch", "step"}
    /\ IF iterable.failAt = pos + 1
       THEN LET e == [Raise(IF iterable.base THEN "CancelledError" ELSE "SourceError",
                            "source") EXCEPT !.base = iterable.base]
            IN /\ exc' = IF e.base THEN e ELSE RaiseFrom("RuntimeError", "_process_items", e)
               /\ pc' = "with_exit"
               /\ UNCHANGED <<item, pos, log>>
       ELSE IF pos = Len(iterable.items)
       THEN /\ pc' = "with_exit"
            /\ log' = Append(log, Ev("exhausted", 0))
            /\ UNCHANGED <<item, pos, exc>>
       ELSE /\ item' = iterable.items[pos + 1]
            /\ pos' = pos + 1
            /\ log' = Append(log, Ev("pull", 0))
            /\ pc' = "step"
            /\ UNCHANGED exc
    /\ UNCHANGED <<previous, transducer, reducer, pipeline, opstate, iterable, init, env, accumulator, result>>

\* `for item in iterable` (132 / 233): fetch the next item.  An Exception
\* the source raises is re-raised as RuntimeError by the handler at 139-140;
\* a BaseException passes that handler untouched.
Fetch ==
    /\ pc = "fetch"
    /\ iterable.endless => pos < MaxPulls
    /\ IF iterable.failAt = pos + 1
       THEN LET e == [Raise(IF iterable.base THEN "CancelledError" ELSE "SourceError",
                            "source") EXCEPT !.base = iterable.base]
            IN /\ exc' = IF e.base THEN e ELSE RaiseFrom("RuntimeError", "_process_items", e)
               /\ pc' = "with_exit"
               /\ UNCHANGED <<item, pos, log>>
       ELSE IF ~iterable.endless /\ pos = Len(iterable.items)
       THEN /\ pc' = "with_exit"
            /\ log' = Append(log, Ev("exhausted", 0))
            /\ UNCHANGED <<item, pos, exc>>
       ELSE /\ item' = ItemAt(pos + 1)
            /\ pos' = pos + 1
            /\ log' = Append(log, Ev("pull", 0))
            /\ pc' = "step"
            /\ UNCHANGED exc
    /\ UNCHANGED <<previous, transducer, reducer, pipeline, opstate, iterable, init, env, accumulator, result>>

\* the loop body (133-137 / 234-238): one pipeline.step and the Reduced test
ProcessItem ==
    /\ pc = "step"
    /\ LET r == StepAt(pipeline, opstate, 1, accumulator, item)
       IN /\ opstate' = r.st
          /\ log' = log \o r.calls
          /\ IF r.exc # NoExc
             THEN /\ exc' = RaiseFrom("RuntimeError", "_process_items", r.exc)
                  /\ pc' = "with_exit"
                  /\ UNCHANGED accumulator
             ELSE IF IsReduced(r.acc)
             THEN /\ accumulator' = Value(r.acc)
                  /\ pc' = "with_exit"
                  /\ UNCHANGED exc
             ELSE /\ accumulator' = r.acc
                  /\ pc' = "fetch"
                  /\ UNCHANGED exc
    /\ UNCHANGED <<previous, transducer, reducer, pipeline, iterable, init, env, item, pos, result>>

\* mutant: exit is called on the way out of the block only when no exception
\* is in flight
WithExitOnReturnOnly ==
    /\ pc = "with_exit"
    /\ log' = IF HasHooks(pipeline) /\ exc = NoExc THEN Append(log, Ev("exit", 0)) \o ExitAt(pipeline, 1) ELSE log
    /\ pc' = IF exc = NoExc THEN "complete" ELSE IF exc.base THEN "raised" ELSE "handler"
    /\ UNCHANGED <<previous, transducer, reducer, pipeline, opstate, iterable, init, env, accumulator, item, pos, exc, result>>

\* leaving the `with` block (102-103 / 203-204): pipeline.__exit__(...),
\* on return and on exception alike; `except Exception` (110) then catches
\* what is an Exception
WithExit ==
    /\ pc = "with_exit"
    /\ log' = IF HasHooks(pipeline) THEN Append(log, Ev("exit", 0)) \o ExitAt(pipeline, 1) ELSE log
    /\ pc' = IF exc = NoExc THEN "complete" ELSE IF exc.base THEN "raised" ELSE "handler"
    /\ UNCHANGED <<previous, transducer, reducer, pipeline, opstate, iterable, init, env, accumulator, item, pos, exc, result>>

\* `return pipeline.complete(accumulator)` (108 / 209)
Complete ==
    /\ pc = "complete"
    /\ LET r == CompleteAt(pipeline, opstate, 1, accumulator)
       IN /\ opstate' = r.st
          /\ log' = log \o r.calls
          /\ IF r.exc # NoExc
             THEN /\ exc' = r.exc
                  /\ pc' = "handler"
                  /\ UNCHANGED result
             ELSE /\ result' = r.acc
                  /\ pc' = "done"
                  /\ UNCHANGED exc
    /\ UNCHANGED <<previous, transducer, reducer, pipeline, iterable, init, env, accumulator, item, pos>>

\* mutant: the handler swallows the exception and goes on with the next item
HandlerResumes ==
    /\ pc = "handler"
    /\ log' = IF HasHooks(pipeline) THEN Append(log, Ev("exit", 0)) \o ExitAt(pipeline, 1) ELSE log
    /\ pc' = "fetch"
    /\ exc' = NoExc
    /\ UNCHANGED <<previous, transducer, reducer, pipeline, opstate, iterable, init, env, accumulator, item, pos, result>>

\* `except Exception` (110-117 / 211-218): pipeline.__exit__(...), then raise
Handler ==
    /\ pc = "handler"
    /\ log' = IF HasHooks(pipeline) THEN Append(log, Ev("exit", 0)) \o ExitAt(pipeline, 1) ELSE log
    /\ pc' = "raised"
    /\ UNCHANGED <<previous, transducer, reducer, pipeline, opstate, iterable, init, env, accumulator, item, pos, exc, result>>

\* -------------------------------------------- composed mapping / filtering
\* the source of the docstring's composition example
Example == <<1, 2, 3, 4, 5, 6>>

\* compose(op1, op2) of two different mapping / filtering operators
ComposeCalls ==
    LET ops == {mapping("double"), mapping("square"), filtering("odd"), filtering("gt5")}
    IN {[transducer |-> c, reducer |-> Appending] : c \in {<<a, b>> : a, b \in ops} \ {<<a, a>> : a \in ops}}

InitCompose == InitFrom(ComposeCalls, Sources \cup {Example})

\* ------------------------------------------------ the remaining operators
\* one operator over either collector: drop, nth, first_true and repeating
\* with limits and counts on both sides of zero, and batching(0)
OpsCalls ==
    {[transducer |-> <<op>>, reducer |-> r] :
         op \in {drop(n) : n \in (-1)..MaxLimit}
                  \cup {nth(n, 0) : n \in (-1)..MaxLimit}
                  \cup {repeating(n) : n \in (-1)..MaxLimit}
                  \cup {first_true("None"), first_true("odd"), batching(0)},
         r \in {Appending, Conjoining}}

\* sources that begin with a falsy item
FalsySources == {<<0>> \o s : s \in SeqsUpTo(Items, MaxLen - 1)} \cup {<<0, 0>>}

FirstTrueCalls ==
    {[transducer |-> <<first_true(f)>>, reducer |-> Appending] : f \in {"None", "odd"}}

InitOps == InitFrom(OpsCalls, Sources) \/ InitFrom(FirstTrueCalls, FalsySources)

\* ------------------------------------------------- take_last and drop_last
\* limits from below zero to beyond the longest source
LastLimits == (-1)..(MaxLen + 1)

\* take_last / drop_last alone over either collector, and under a batching
\* whose complete hands them what the tests' EarlyTerm reducer returned
LastCalls ==
    {[transducer |-> <<op>>, reducer |-> r] :
         op \in {take_last(k) : k \in LastLimits} \cup {drop_last(k) : k \in LastLimits},
         r \in {Appending, Conjoining}}
      \cup {[transducer |-> <<batching(2), op>>, reducer |-> EarlyTerm] :
               op \in {take_last(1), drop_last(1)}}

\* init=0, init=set(), init={0}, init={}, init={0: 0}
Objects ==
    {[given |-> TRUE, value |-> <<>>, type |-> t] : t \in {"int", "set", "dict"}}
        \cup {[given |-> TRUE, value |-> <<0>>, type |-> t] : t \in {"set", "dict"}}

InitLast == InitWith(LastCalls, Sources, Inits \cup Objects)

\* ------------------------------------------- transduce, then atransduce
\* every library operator over either library collector
PairCalls == {c \in Calls \cup OpsCalls \cup LastCalls : c.reducer # EarlyTerm /\ Len(c.transducer) = 1}

\* transduce(op, xs, reducer) over a sequence: the source raises nothing
InitPair ==
    /\ InitWith(PairCalls, Sources, {Unset}) \/ InitWith(FirstTrueCalls, FalsySources, {Unset})
    /\ ~env.async
    /\ iterable.failAt = 0

\* The call is made again as atransduce(aop, async_from_iterable(xs),
\* areducer): the async classes of the same operators, the same items
\* (AsyncFromIterable hands out xs[0] and keeps list(xs)[1:]), and callables
\* that are the same plain functions or coroutine functions with the same
\* bodies.  How the first call ended is kept for comparison.
RunAsync ==
    /\ pc \in {"done", "raised"} /\ ~env.async /\ previous = NoRun
    /\ previous' = [pc |-> pc, result |-> result, exc |-> exc]
    /\ \E e \in Engines(transducer) :
          /\ e.async
          /\ env' = [env EXCEPT !.async = TRUE, !.coro = e.coro]
    /\ pipeline' = <<>>
    /\ opstate' = <<>>
    /\ accumulator' = Plain(<<>>)
    /\ item' = 0
    /\ pos' = 0
    /\ pc' = "factory"
    /\ exc' = NoExc
    /\ log' = <<>>
    /\ result' = Plain(<<>>)
    /\ UNCHANGED <<transducer, reducer, iterable, init>>

\* ------------------------------------------- one pipeline object, two calls
\* the operators that keep a counter or a buffer, alone over the list collector
Starts == (-1)..1

ReuseCalls ==
    {[transducer |-> <<op>>, reducer |-> Appending] :
         op \in {take(n) : n \in 0..MaxLimit} \cup {drop(n) : n \in 0..MaxLimit}
                  \cup {nth(n, 0) : n \in 1..MaxLimit} \cup {batching(n) : n \in 1..MaxLimit}
                  \cup {enumerating(s) : s \in Starts} \cup {expecting_single}}

InitReuse == InitWith(ReuseCalls, Sources, Inits) /\ ~env.async

\* The reducer object the first call drove is handed to a second call over
\* the same source, as in the tests' `transduce(identity, xs, op(appending()))`
\* with the object kept: `pipeline = transducer(reducer)` runs no
\* constructor and yields the object as the first call left it.  How the
\* first call ended is kept for comparison, and the history goes on after a
\* mark of the new call.
Reuse ==
    /\ pc \in {"done", "raised"} /\ previous = NoRun /\ pipeline # <<>>
    /\ previous' = [pc |-> pc, result |-> result, exc |-> exc]
    /\ accumulator' = Plain(<<>>)
    /\ item' = 0
    /\ pos' = 0
    /\ pc' = "initial"
    /\ exc' = NoExc
    /\ log' = Append(log, Ev("call", 0))
    /\ result' = Plain(<<>>)
    /\ UNCHANGED <<transducer, reducer, pipeline, opstate, iterable, init, env>>

\* ------------------------------------------- atransduce among other tasks
\* operators with a counter or a buffer, and a transform that is awaited
TaskCalls ==
    {[transducer |-> <<op>>, reducer |-> Appending] :
         op \in {take(n) : n \in 1..MaxLimit} \cup {batching(n) : n \in 1..MaxLimit}
                  \cup {drop(1), nth(2, 0), enumerating(0), expecting_single, mapping("double")}}

\* no init, a source and callables that raise nothing
InitTasks ==
    /\ InitWith(TaskCalls, Sources, {Unset})
    /\ iterable.failAt = 0 /\ env.excType = "none"

\* `async for item in iterable` (233) and `await pipeline.step(...)` (234)
\* are where the coroutine of atransduce can be suspended: the event loop
\* then runs other tasks, which own neither the pipeline object nor the
\* local variables of the call, and resumes the coroutine where it stood.
\* transduce is never suspended.
OtherTask ==
    /\ env.async /\ pc \in {"fetch", "step"}
    /\ Cardinality({i \in DOMAIN log : log[i].ev = "other"}) < MaxOther
    /\ log' = Append(log, Ev("other", 0))
    /\ UNCHANGED <<previous, transducer, reducer, pipeline, opstate, iterable, init, env, accumulator, item, pos, pc, exc, result>>

\* ------------------------------------------------------- endless sources
\* one operator over the list collector: take and nth on both sides of
\* zero, first_true, and a mapping, which never stops of itself
EndlessCalls ==
    {[transducer |-> <<op>>, reducer |-> Appending] :
         op \in {take(n) : n \in (-1)..MaxLimit} \cup {nth(n, 0) : n \in (-1)..MaxLimit}
                  \cup {first_true("None"), first_true("odd"), mapping("double")}}

\* transduce(op, itertools.cycle(xs), appending()) for a non-empty xs, with
\* and without init
InitEndless ==
    \E c \in EndlessCalls, s \in Sources \ {<<>>} :
      \E f \in Faults(c.transducer, s), e \in Engines(c.transducer), i \in Inits :
        /\ (i.given => f = NoFault)
        /\ transducer = c.transducer
        /\ reducer = c.reducer
        /\ pipeline = <<>>
        /\ opstate = <<>>
        /\ iterable = [items |-> s, failAt |-> f.failAt, base |-> f.base, endless |-> TRUE]
        /\ init = i
        /\ env = [async |-> e.async, coro |-> e.coro, badItem |-> f.badItem,
                  excType |-> f.excType]
        /\ accumulator = Plain(<<>>)
        /\ item = 0
        /\ pos = 0
        /\ pc = "factory"
        /\ exc = NoExc
        /\ log = <<>>
        /\ result = Plain(<<>>)
        /\ previous = NoRun

\* ------------------------------------------- operators that stop, nested
\* the operators that return a Reduced box, and batching and nth, whose
\* complete makes a late step
Stopping == {take(1), take(2), nth(1, 0), nth(2, 0), first_true("odd")}

\* compose(op1, op2) of an outer operator and a stopping one below it, over
\* the list collector; no batch is handed to the predicate of first_true
NestedCalls ==
    {c \in {[transducer |-> <<a, b>>, reducer |-> Appending] :
                a \in Stopping \cup {batching(2), repeating(2)}, b \in Stopping} :
        c.transducer[1].kind = "batching" => c.transducer[2].kind # "first_true"}

InitNested == InitWith(NestedCalls, Sources, {Unset})

\* --------------------------- take_last / drop_last over batching and nth
\* compose(take_last(k), op) and compose(drop_last(k), op), k >= 0, for the
\* two operators whose complete adds to the accumulator, over either collector
WindowCalls ==
    {[transducer |-> <<w, b>>, reducer |-> r] :
         w \in {take_last(k) : k \in 0..MaxLimit} \cup {drop_last(k) : k \in 0..MaxLimit},
         b \in {batching(n) : n \in 1..MaxLimit} \cup {nth(n, 0) : n \in 1..MaxLimit},
         r \in {Appending, Conjoining}}

InitWindow == InitWith(WindowCalls, Sources, {Unset})

\* ------------------------------------------- a collector with hooks
\* the resource-holding collector alone, and wrapped by one operator or two
HooksCalls ==
    {[transducer |-> ops, reducer |-> Holding] :
         ops \in {<<>>} \cup {<<op>> : op \in Operators}
                   \cup {<<mapping("double"), take(2)>>, <<filtering("odd"), batching(2)>>}}

InitHooks == InitWith(HooksCalls, Sources, {Unset})

\* ------------------------------- one factory value, two pipeline objects
\* `f = take(2); a = f(appending()); b = f(appending())`: each application
\* of the closure runs the constructor, which gives the new object fields of
\* its own.  Here `pipeline` holds the chain of a followed by the chain of b,
\* `opstate` their fields, and iterable, accumulator, pos, pc, exc and
\* result hold a pair, one entry for each of the two objects.
TwoCalls ==
    {[transducer |-> <<op>>, reducer |-> Appending] :
         op \in {take(n) : n \in 1..MaxLimit} \cup {batching(n) : n \in 1..MaxLimit}
                  \cup {drop(1), nth(2, 0), enumerating(0), expecting_single}}

Reverse(s) == [k \in DOMAIN s |-> s[Len(s) + 1 - k]]

\* where the chain of object k begins
Base(k) == 2 * k - 1

InitTwo ==
    \E c \in TwoCalls, s \in Sources, t \in Sources :
        /\ t \in {s, Reverse(s), Tail(s \o <<1>>)}
        /\ transducer = c.transducer
        /\ reducer = c.reducer
        /\ pipeline = compose(c.transducer, c.reducer) \o compose(c.transducer, c.reducer)
        /\ opstate = [k \in 1..4 |-> Constructed(pipeline[k])]
        /\ iterable = <<s, t>>
        /\ init = Unset
        /\ env = [async |-> FALSE, coro |-> FALSE, badItem |-> 0, excType |-> "none"]
        /\ accumulator = <<Plain(<<>>), Plain(<<>>)>>
        /\ item = 0
        /\ pos = <<0, 0>>
        /\ pc = <<"initial", "initial">>
        /\ exc = <<NoExc, NoExc>>
        /\ log = <<>>
        /\ result = <<Plain(<<>>), Plain(<<>>)>>
        /\ previous = NoRun

\* what a protocol call r on object k leaves: its accumulator and the
\* fields, and where its driver stands next
AfterCall(k, r, next) ==
    /\ opstate' = r.st
    /\ IF r.exc # NoExc
       THEN /\ exc' = [exc EXCEPT ![k] = r.exc]
            /\ pc' = [pc EXCEPT ![k] = "raised"]
            /\ UNCHANGED accumulator
       ELSE /\ accumulator' = [accumulator EXCEPT ![k] = IF IsReduced(r.acc) THEN Value(r.acc) ELSE r.acc]
            /\ pc' = [pc EXCEPT ![k] = IF IsReduced(r.acc) THEN "complete" ELSE next]
            /\ UNCHANGED exc

\* the driver of object k calls initial()
InitialOf(k) ==
    /\ pc[k] = "initial"
    /\ AfterCall(k, InitialAt(pipeline, opstate, Base(k)), "step")
    /\ UNCHANGED <<previous, transducer, reducer, pipeline, iterable, init, env, item, pos, log, result>>

\* mutant: the two objects keep their counters and buffers in one place
StepOfShared(k) ==
    /\ pc[k] = "step"
    /\ IF pos[k] = Len(iterable[k])
       THEN /\ pc' = [pc EXCEPT ![k] = "complete"]
            /\ UNCHANGED <<opstate, accumulator, exc, pos>>
       ELSE /\ pos' = [pos EXCEPT ![k] = @ + 1]
            /\ LET shared == [opstate EXCEPT ![Base(k)] = opstate[1]]
                   r == StepAt(pipeline, shared, Base(k), accumulator[k], iterable[k][pos[k] + 1])
               IN AfterCall(k, [r EXCEPT !.st = [r.st EXCEPT ![1] = r.st[Base(k)]]], "step")
    /\ UNCHANGED <<previous, transducer, reducer, pipeline, iterable, init, env, item, log, result>>

\* the driver of object k pulls the next item of its source and calls
\* step, or finds the source exhausted
StepOf(k) ==
    /\ pc[k] = "step"
    /\ IF pos[k] = Len(iterable[k])
       THEN /\ pc' = [pc EXCEPT ![k] = "complete"]
            /\ UNCHANGED <<opstate, accumulator, exc, pos>>
       ELSE /\ pos' = [pos EXCEPT ![k] = @ + 1]
            /\ AfterCall(k, StepAt(pipeline, opstate, Base(k), accumulator[k], iterable[k][pos[k] + 1]), "step")
    /\ UNCHANGED <<previous, transducer, reducer, pipeline, iterable, init, env, item, log, result>>

\* the driver of object k calls complete()
CompleteOf(k) ==
    /\ pc[k] = "complete"
    /\ LET r == CompleteAt(pipeline, opstate, Base(k), accumulator[k])
       IN /\ opstate' = r.st
          /\ IF r.exc # NoExc
             THEN /\ exc' = [exc EXCEPT ![k] = r.exc]
                  /\ pc' = [pc EXCEPT ![k] = "raised"]
                  /\ UNCHANGED result
             ELSE /\ result' = [result EXCEPT ![k] = r.acc]
                  /\ pc' = [pc EXCEPT ![k] = "done"]
                  /\ UNCHANGED exc
    /\ UNCHANGED <<previous, transducer, reducer, pipeline, iterable, init, env, accumulator, item, pos, log>>

\* ------------------------------------------ the async source adapters
\* AsyncRange and AsyncFromIterable (operator/async_utils.py).  Here
\* `iterable` is the adapter object: its class (kind), what its field
\* _range / _iterable holds (held), whether the argument of
\* async_from_iterable was a one-shot iterator (oneshot) and the items the
\* argument produces when iterated on its own (source); `result` holds the
\* items yielded so far, `pos` the number of items taken out of the argument,
\* and pc tells whether StopAsyncIteration was raised.

\* is range(start, stop, step) empty
RangeEmpty(r) == IF r.step > 0 THEN r.start >= r.stop ELSE r.start <= r.stop

\* list(range(start, stop, step)), cut after MaxPulls + 1 items
RECURSIVE RangeItems(_, _)
RangeItems(r, fuel) ==
    IF RangeEmpty(r) \/ fuel = 0 THEN <<>>
    ELSE <<r.start>> \o RangeItems([r EXCEPT !.start = @ + r.step], fuel - 1)

\* async_range(start, stop, step) for steps on both sides of zero
RangeArgs ==
    {[start |-> a, stop |-> b, step |-> c] :
         a \in 0..MaxItem, b \in 0..(MaxLen + 1), c \in ((-MaxLimit)..MaxLimit) \ {0}}

InitSources ==
    /\ \/ \E r \in RangeArgs :
             iterable = [kind |-> "range", held |-> r, oneshot |-> FALSE,
                         source |-> RangeItems(r, MaxPulls + 1)]
       \/ \E s \in Sources, o \in BOOLEAN :
             iterable = [kind |-> "from_iterable", held |-> s, oneshot |-> o, source |-> s]
    /\ transducer = <<>>
    /\ reducer = Appending
    /\ pipeline = <<>>
    /\ opstate = <<>>
    /\ init = Unset
    /\ env = [async |-> TRUE, coro |-> FALSE, badItem |-> 0, excType |-> "none"]
    /\ accumulator = Plain(<<>>)
    /\ item = 0
    /\ pos = 0
    /\ pc = "iterating"
    /\ exc = NoExc
    /\ log = <<>>
    /\ result = Plain(<<>>)
    /\ previous = NoRun

\* AsyncRange.__anext__ (34-41): `value = next(iter(self._range))`, then
\* `self._range = range(value + 1, self._range.stop, self._range.step)`
RangeAnext ==
    /\ pc = "iterating" /\ iterable.kind = "range" /\ Len(result.val) < MaxPulls
    /\ IF RangeEmpty(iterable.held)
       THEN /\ pc' = "exhausted"
            /\ UNCHANGED <<iterable, result, item, pos>>
       ELSE /\ item' = iterable.held.start
            /\ iterable' = [iterable EXCEPT !.held.start = item' + 1]
            /\ result' = Plain(Append(result.val, item'))
            /\ pos' = pos + 1
            /\ UNCHANGED pc
    /\ UNCHANGED <<previous, transducer, reducer, pipeline, opstate, init, env, accumulator, exc, log>>

\* AsyncFromIterable.__anext__ (58-67): `value = next(iter(self._iterable))`
\* takes the first item -- out of a one-shot iterator for good, while a list
\* or a range still holds it -- and `self._iterable =
\* list(self._iterable)[1:]` then reads everything that is left and drops the
\* first of it; from then on the field is a list.
FromIterableAnext ==
    /\ pc = "iterating" /\ iterable.kind = "from_iterable"
    /\ IF iterable.held = <<>>
       THEN /\ pc' = "exhausted"
            /\ UNCHANGED <<iterable, result, item, pos>>
       ELSE /\ item' = Head(iterable.held)
            /\ LET left == IF iterable.oneshot THEN Tail(iterable.held) ELSE iterable.held
               IN iterable' = [iterable EXCEPT !.held = IF left = <<>> THEN <<>> ELSE Tail(left),
                                               !.oneshot = FALSE]
            /\ pos' = Len(iterable.source)
            /\ result' = Plain(Append(result.val, item'))
            /\ UNCHANGED pc
    /\ UNCHANGED <<previous, transducer, reducer, pipeline, opstate, init, env, accumulator, exc, log>>

Next == CallFactories \/ BuildPipeline \/ Initialize \/ Enter \/ Fetch \/ ProcessItem \/ WithExit \/ Complete \/ Handler

Spec == Init /\ [][Next]_vars

SpecCompose == InitCompose /\ [][Next]_vars

SpecOps == InitOps /\ [][Next]_vars

SpecLast == InitLast /\ [][Next]_vars

NextPair == Next \/ RunAsync

NextReuse == Next \/ Reuse

NextTasks == Next \/ OtherTask

SpecNested == InitNested /\ [][Next]_vars

SpecWindow == InitWindow /\ [][Next]_vars

SpecHooks == InitHooks /\ [][Next]_vars

NextSources == RangeAnext \/ FromIterableAnext

SpecSources == InitSources /\ [][NextSources]_vars

NextTwo == \E k \in 1..2 : InitialOf(k) \/ StepOf(k) \/ CompleteOf(k)

SpecTwo == InitTwo /\ [][NextTwo]_vars

\* transduce is a loop that runs on until it returns or raises: no step of
\* the call that can be taken is put off for ever
SpecEndless == InitEndless /\ [][Next]_vars /\ WF_vars(Next)

SpecTasks == InitTasks /\ [][NextTasks]_vars

SpecReuse == InitReuse /\ [][NextReuse]_vars

SpecPair == InitPair /\ [][NextPair]_vars

\* ================================================================ claims
\* positions in the log of the calls of method ev on the pipeline itself
TopCalls(ev) == {i \in DOMAIN log : log[i].ev = ev /\ log[i].lvl = 1}

\* positions in the log of the orchestrator's own events
Own(ev) == {i \in DOMAIN log : log[i].ev = ev /\ log[i].lvl = 0}

Min(a, b) == IF a < b THEN a ELSE b

\* C1: once pipeline.step has returned a Reduced box, no further item is
\* pulled and step is not called again; complete, when it is called, is
\* given the value taken out of that box, and a run that returns has called it.
C1_StopsOnReduced ==
    \A i \in TopCalls("step") :
        log[i].red =>
            /\ \A j \in TopCalls("step") \cup Own("pull") \cup Own("exhausted") : j <= i
            /\ \A j \in TopCalls("complete") : j > i /\ log[j].acc = Value(log[i].acc)
            /\ (pc = "done" => TopCalls("complete") # {})
            /\ pc \in {"with_exit", "complete", "handler", "done", "raised"}

\* C1 witness: a run that returned after a Reduced step left items unpulled
C1_Witness ==
    /\ pc = "done"
    /\ \E i \in TopCalls("step") : log[i].red
    /\ pos < Len(iterable.items)

\* C2 as stated: every run that returns normally made exactly one initial()
\* call, before any step(), and exactly one complete() call, after the last
\* step().
C2_AsStated ==
    pc = "done" =>
        /\ Cardinality(TopCalls("initial")) = 1
        /\ \A i \in TopCalls("initial"), j \in TopCalls("step") : i < j
        /\ Cardinality(TopCalls("complete")) = 1
        /\ \A i \in TopCalls("step"), j \in TopCalls("complete") : i < j

\* C2 amended: a run that returns normally made exactly one initial() call,
\* before any step(), when the caller gave no init, and no initial() call
\* when the caller gave init; either way it made exactly one complete()
\* call, after the last step(), and with no step() at all before it when
\* the source was empty.
C2_OneInitialUnlessInitGiven ==
    pc = "done" =>
        /\ Cardinality(TopCalls("initial")) = IF init.given THEN 0 ELSE 1
        /\ \A i \in TopCalls("initial"), j \in TopCalls("step") \cup TopCalls("complete") : i < j
        /\ Cardinality(TopCalls("complete")) = 1
        /\ \A i \in TopCalls("step"), j \in TopCalls("complete") : i < j
        /\ (iterable.items = <<>> => TopCalls("step") = {})

\* C2 witness: a run without init that stepped and returned, and one with init
C2_Witness ==
    /\ pc = "done"
    /\ ~init.given
    /\ Cardinality(TopCalls("step")) >= 2
    /\ TopCalls("initial") # {}

\* C3: with no operator and the list collector, a run that returns hands
\* back exactly the source's items, in order.
C3_IdentityLaw ==
    (pc = "done" /\ transducer = <<>> /\ reducer = Appending /\ ~init.given)
        => result = Plain(iterable.items)

\* C3 witness: such a run over a source of two different items or more
C3_Witness ==
    /\ pc = "done" /\ transducer = <<>> /\ reducer = Appending /\ ~init.given
    /\ Len(iterable.items) >= 2
    /\ iterable.items[1] # iterable.items[2]
    /\ result.val = iterable.items

\* C4 as stated: when a user callable raised during step, the run ends by
\* raising that very exception to the caller: neither wrapped in another
\* exception, nor replaced, nor swallowed.
C4_UserExceptionUnchanged ==
    ((pc \in {"done", "raised"}) /\ (\E i \in DOMAIN log : log[i].ev = "fnraise"))
        => (pc = "raised" /\ exc.by = "user" /\ exc.cause = "")

\* C5: on a pipeline with hooks, every run that has ended, by returning or
\* by raising, called exit after enter; and a run in which an exception was
\* raised (by step, by the source, by complete) ends by raising.
C5_ExitOnEveryPath ==
    ((pc \in {"done", "raised"}) /\ HasHooks(pipeline)) =>
        /\ Own("enter") # {}
        /\ \A i \in Own("enter") : \E j \in Own("exit") : i < j
        /\ (exc # NoExc => pc = "raised")
        /\ (pc = "raised" => exc # NoExc)

\* C5 witnesses: ways out after enter, with exit called: complete raised;
\* the source was cancelled after an item
C5_Witness ==
    /\ pc = "raised" /\ HasHooks(pipeline)
    /\ exc.by = "expecting_single" /\ TopCalls("complete") # {}
    /\ Own("exit") # {}

C5_WitnessCancelled ==
    /\ pc = "raised" /\ HasHooks(pipeline)
    /\ exc.base /\ exc.by = "source" /\ pos >= 1
    /\ Own("exit") # {}

\* C6 as stated: enter comes before initial(), which comes before the
\* first step().
C6_EnterBeforeInitial ==
    /\ \A i \in TopCalls("initial"), j \in Own("enter") : j < i
    /\ \A i \in TopCalls("initial"), j \in TopCalls("step") : i < j
    /\ ((TopCalls("initial") # {} /\ HasHooks(pipeline)) => Own("enter") # {})

\* the first n items of s (all of s when it is shorter)
FirstN(s, n) == SubSeq(s, 1, Min(n, Len(s)))

\* C7: with take(n), n >= 1, over the list collector, a run that returns
\* hands back the first min(n, len) items of the source in order and has
\* pulled exactly min(n, len) items; when the source has n items or more,
\* the n-th step is the one that returned a Reduced box, and it was the last.
C7_TakeFirstN ==
    \A n \in 1..MaxLimit :
        (pc = "done" /\ transducer = <<take(n)>> /\ reducer = Appending /\ ~init.given)
            => /\ result = Plain(FirstN(iterable.items, n))
               /\ pos = Min(n, Len(iterable.items))
               /\ Cardinality(TopCalls("step")) = pos
               /\ (Len(iterable.items) >= n
                     => \E i \in TopCalls("step") :
                           /\ log[i].red
                           /\ Cardinality({j \in TopCalls("step") : j <= i}) = n)
               /\ (Len(iterable.items) < n => \A i \in TopCalls("step") : ~log[i].red)

\* C7 witness: take(n) returned from a source longer than n, items left unpulled
C7_Witness ==
    /\ pc = "done" /\ reducer = Appending /\ ~init.given
    /\ \E n \in 1..MaxLimit : transducer = <<take(n)>> /\ Len(iterable.items) > n /\ pos = n
    /\ result.val = FirstN(iterable.items, pos)

\* reducers of the chain that are a take with limit <= 0
ClosedTakes == {i \in DOMAIN pipeline : pipeline[i].kind = "take" /\ pipeline[i].n <= 0}

\* C8: a take with limit <= 0 never calls its downstream's step, and each
\* of its own steps returns a Reduced box; when it is the whole transducer,
\* the first step ends the feeding: one item pulled, and the returned
\* accumulator is the starting one (empty unless init was given).
C8_TakeNothing ==
    /\ \A i \in ClosedTakes, k \in DOMAIN log :
          /\ ~(log[k].ev = "step" /\ log[k].lvl = i + 1)
          /\ (log[k].ev = "step" /\ log[k].lvl = i => log[k].red)
    /\ \A n \in (-1)..0 :
          (transducer = <<take(n)>> /\ pc \in {"with_exit", "complete", "done"}
             /\ iterable.items # <<>> /\ exc = NoExc)
            => /\ pos = 1
               /\ Cardinality(TopCalls("step")) = 1
               /\ accumulator = Plain(init.value)
               /\ (pc = "done" => result = Plain(init.value))

\* C8 witness: take(0) returned from a source of two items or more
C8_Witness ==
    /\ pc = "done" /\ transducer = <<take(0)>>
    /\ Len(iterable.items) >= 2
    /\ pos = 1 /\ result.val = <<>>
    /\ TopCalls("step") # {}

\* what one operator makes of a sequence of items: mapping transforms every
\* item, filtering keeps the items its predicate accepts
ApplyOp(op, s) ==
    IF op.kind = "mapping"
    THEN [k \in DOMAIN s |-> Transform(op.fn, s[k])]
    ELSE LET keep(x) == Transform(op.fn, x) IN SelectSeq(s, keep)

\* a sequence of items passed through op1 first and opN last
RECURSIVE Through(_, _)
Through(ops, s) ==
    IF ops = <<>> THEN s ELSE Through(Tail(ops), ApplyOp(ops[1], s))

\* C9 as stated: in the pipeline built from compose(op1, op2), op1 is the
\* outermost reducer and op2 the next; a run whose callables raise nothing
\* returns the starting accumulator extended by the source's items passed
\* through op1 first and op2 last, in source order; doubling then keeping
\* x > 5 over 1..6 gives 6, 8, 10, 12.
C9_ComposeOrder ==
    /\ pc \notin {"factory", "build"} => \A i \in DOMAIN transducer : pipeline[i] = transducer[i]
    /\ (pc = "done" /\ env.badItem = 0)
          => result = Plain(init.value \o Through(transducer, iterable.items))
    /\ (pc = "done" /\ env.badItem = 0 /\ ~init.given /\ iterable.items = Example
          /\ transducer = <<mapping("double"), filtering("gt5")>>)
          => result = Plain(<<6, 8, 10, 12>>)

\* C9 restricted to operators of different kinds (factories of different
\* names): the part of the claim the code keeps
C9_DifferentKinds ==
    transducer[1].kind # transducer[2].kind => C9_ComposeOrder

\* the composition example of the documentation, run to its end
C9_ExampleRuns ==
    /\ pc = "done" /\ env.badItem = 0 /\ ~init.given /\ iterable.items = Example
    /\ transducer = <<mapping("double"), filtering("gt5")>>
    /\ result.val = <<6, 8, 10, 12>>

\* the batches of a result laid end to end
RECURSIVE Flatten(_)
Flatten(batches) ==
    IF batches = <<>> THEN <<>> ELSE Head(batches) \o Flatten(Tail(batches))

\* positions in the log of the calls of method ev on reducer lvl
CallsAt(ev, lvl) == {i \in DOMAIN log : log[i].ev = ev /\ log[i].lvl = lvl}

\* C10: with batching(size), size >= 1, over the list collector, a run that
\* returns hands back batches that, laid end to end, are the source's items
\* in order; every batch but the last holds exactly size items and the last
\* between 1 and size; an empty source gives no batch; a partial last batch
\* is handed to the downstream's step exactly once, inside complete and
\* before the downstream's complete, which is called once.
C10_BatchingComplete ==
    \A n \in 1..MaxLimit :
        (pc = "done" /\ transducer = <<batching(n)>> /\ reducer = Appending /\ ~init.given)
          => LET out == result.val
                 c == CHOOSE i \in TopCalls("complete") : TRUE
                 late == {i \in CallsAt("step", 2) : i > c}
             IN /\ result.red = 0
                /\ Flatten(out) = iterable.items
                /\ \A k \in DOMAIN out : Len(out[k]) \in 1..n
                /\ \A k \in DOMAIN out : k < Len(out) => Len(out[k]) = n
                /\ (iterable.items = <<>> => out = <<>>)
                /\ Cardinality(TopCalls("complete")) = 1
                /\ Cardinality(late) = IF Len(iterable.items) % n = 0 THEN 0 ELSE 1
                /\ Cardinality(CallsAt("complete", 2)) = 1
                /\ \A i \in late, j \in CallsAt("complete", 2) : i < j
                /\ Cardinality(CallsAt("step", 2)) = Len(out)

\* C10 witness: batching(2) over three items returned a full batch and a
\* partial one
C10_Witness ==
    /\ pc = "done" /\ transducer = <<batching(2)>> /\ reducer = Appending /\ ~init.given
    /\ Len(iterable.items) = 3
    /\ Len(result.val) = 2 /\ Len(result.val[1]) = 2 /\ Len(result.val[2]) = 1
    /\ \E i \in CallsAt("step", 2), c \in TopCalls("complete") : i > c

\* reducers of the chain that are an expecting_single
Singles == {i \in DOMAIN pipeline : pipeline[i].kind = "expecting_single"}

\* the exception in flight was raised by reducer class `by`, whether or not
\* the item loop wrapped it since
RaisedBy(by) == exc # NoExc /\ (exc.by = by \/ exc.causeBy = by)

\* C11: an expecting_single delegates the first item that reaches it and no
\* other: a second item makes its step raise RuntimeError with nothing more
\* handed downstream, and a complete that finds no item was seen raises
\* RuntimeError without calling the downstream's complete; a run that
\* returns saw exactly one item there, and with expecting_single alone over
\* the list collector it returns that one item.
C11_ExpectingSingle ==
    /\ \A i \in Singles :
          LET seen == Cardinality(CallsAt("step", i))
          IN /\ seen <= 2
             /\ Cardinality(CallsAt("step", i + 1)) = Min(seen, 1)
             /\ (seen = 2 => /\ RaisedBy("expecting_single")
                             /\ pc \in {"with_exit", "handler", "raised"}
                             /\ CallsAt("complete", i + 1) = {})
             /\ ((seen = 0 /\ CallsAt("complete", i) # {})
                    => /\ RaisedBy("expecting_single")
                       /\ exc.type = "RuntimeError"
                       /\ pc \in {"handler", "raised"}
                       /\ CallsAt("complete", i + 1) = {})
             /\ (pc = "done" => seen = 1 /\ Cardinality(CallsAt("complete", i + 1)) = 1)
    /\ (pc = "done" /\ transducer = <<expecting_single>> /\ reducer = Appending)
          => /\ Len(iterable.items) = 1
             /\ result = Plain(init.value \o iterable.items)

\* C11 witness: a second item reached expecting_single and the run raised,
\* one item only having gone downstream
C11_Witness ==
    /\ pc = "raised" /\ transducer = <<expecting_single>>
    /\ Cardinality(CallsAt("step", 1)) = 2
    /\ Cardinality(CallsAt("step", 2)) = 1
    /\ RaisedBy("expecting_single")

\* C11 witnesses: no item and complete raised; one item and the run returned
C11_WitnessNone ==
    /\ pc = "raised" /\ transducer = <<expecting_single>>
    /\ iterable.items = <<>> /\ exc.by = "expecting_single"
    /\ CallsAt("complete", 1) # {} /\ CallsAt("complete", 2) = {}

C11_WitnessOne ==
    /\ pc = "done" /\ transducer = <<expecting_single>> /\ reducer = Appending
    /\ result.val = iterable.items /\ Len(iterable.items) = 1

\* ---------------------------------------------------------------- C12
Misconfigured == \E i \in DOMAIN transducer : ConstructorRaises(transducer[i])

\* C12 as stated: batching(size) with size < 1 and repeating(count) with
\* count < 0 raise their configuration error when the factory is called:
\* such a call never gets past the factory, so the run is either still at
\* the factory call or ended there with the ValueError, before the factory's
\* result is applied to a reducer.
C12_RaisedAtFactoryCall ==
    Misconfigured =>
        \/ pc = "factory"
        \/ pc = "raised" /\ exc.type = "ValueError" /\ exc.by = "factory"

\* ---------------------------------------------------------------- C17
Max(a, b) == IF a > b THEN a ELSE b

\* C17: with nth(n, d), n >= 1, over the list collector, a run that returns
\* hands back the n-th item alone and has pulled exactly n items when the
\* source holds n items or more; with a shorter source it hands back d
\* alone, d being given to the downstream's step once, inside complete and
\* before the downstream's complete.
C17_Nth ==
    \A n \in 1..MaxLimit :
        (pc = "done" /\ transducer = <<nth(n, 0)>> /\ reducer = Appending /\ ~init.given)
          => LET xs == iterable.items
                 c == CHOOSE i \in TopCalls("complete") : TRUE
             IN /\ Cardinality(CallsAt("step", 2)) = 1
                /\ Cardinality(CallsAt("complete", 2)) = 1
                /\ IF Len(xs) >= n
                   THEN /\ result = Plain(<<xs[n]>>)
                        /\ pos = n
                        /\ \A j \in CallsAt("step", 2) : j < c
                   ELSE /\ result = Plain(<<0>>)
                        /\ pos = Len(xs)
                        /\ \A j \in CallsAt("step", 2), k \in CallsAt("complete", 2) :
                              c < j /\ j < k

C17_Witness ==
    /\ pc = "done" /\ transducer = <<nth(2, 0)>> /\ reducer = Appending /\ ~init.given
    /\ Len(iterable.items) = 3 /\ iterable.items[2] # iterable.items[1]
    /\ result = Plain(<<iterable.items[2]>>) /\ pos = 2

C17_WitnessDefault ==
    /\ pc = "done" /\ transducer = <<nth(2, 0)>> /\ reducer = Appending /\ ~init.given
    /\ Len(iterable.items) = 1
    /\ result = Plain(<<0>>)

\* ---------------------------------------------------------------- C18
\* C18 as stated: with nth(n, d), n <= 0, over the list collector, no item
\* is taken from the source and a run that returns hands back d alone.
C18_NthNonPositive ==
    \A n \in (-1)..0 :
        (pc = "done" /\ transducer = <<nth(n, 0)>> /\ reducer = Appending /\ ~init.given)
          => /\ result = Plain(<<0>>)
             /\ CallsAt("step", 2) # {}

\* ---------------------------------------------------------------- C19
FirstTrues == {first_true("None"), first_true("odd")}

\* the items of s up to and including the first that satisfies fn
RECURSIVE UpToFirst(_, _)
UpToFirst(fn, s) ==
    IF s = <<>> THEN <<>>
    ELSE IF Transform(fn, Head(s)) THEN <<Head(s)>>
    ELSE <<Head(s)>> \o UpToFirst(fn, Tail(s))

\* call j of the log was made inside the outermost reducer's step at i
Within(i, j) == j > i /\ \A k \in TopCalls("step") : k > i => k > j

\* C19: with first_true(predicate) over the list collector, in a run whose
\* predicate raises nothing, a step hands its item downstream exactly when
\* the item satisfies the predicate (is truthy, with no predicate) and then
\* returns a Reduced box; any other step returns the accumulator it was
\* given.  A run that returns has pulled the source up to the first such item
\* and none after it, and hands back that item alone, or the empty list
\* when no item matches.
C19_FirstTrue ==
    \A op \in FirstTrues :
        (transducer = <<op>> /\ reducer = Appending /\ ~init.given /\ env.badItem = 0)
          => /\ Cardinality(CallsAt("step", 2)) <= 1
             /\ \A i \in TopCalls("step") :
                   /\ log[i].red <=> (\E j \in CallsAt("step", 2) : Within(i, j))
                   /\ ~log[i].red => log[i].acc = Plain(<<>>)
             /\ pc = "done" =>
                   LET seen == UpToFirst(op.fn, iterable.items)
                       hit == seen # <<>> /\ Transform(op.fn, seen[Len(seen)])
                   IN /\ pos = Len(seen)
                      /\ result = Plain(IF hit THEN <<seen[Len(seen)]>> ELSE <<>>)

C19_Witness ==
    /\ pc = "done" /\ transducer = <<first_true("None")>> /\ reducer = Appending
    /\ ~init.given /\ env.badItem = 0
    /\ Len(iterable.items) = 3 /\ iterable.items[1] = 0 /\ iterable.items[2] # 0
    /\ result = Plain(<<iterable.items[2]>>) /\ pos = 2

C19_WitnessNoMatch ==
    /\ pc = "done" /\ transducer = <<first_true("None")>> /\ reducer = Appending
    /\ ~init.given /\ iterable.items = <<0, 0>>
    /\ result = Plain(<<>>) /\ pos = 2

\* ---------------------------------------------------------------- C20
\* s without its first n items
DropFirst(s, n) == SubSeq(s, Min(Max(n, 0), Len(s)) + 1, Len(s))

\* the k-th call of step on the outermost reducer is at position i of the log
Ordinal(i) == Cardinality({j \in TopCalls("step") : j <= i})

\* C20: with drop(limit) over the list collector, each of the first limit
\* steps returns the accumulator it was given without calling the
\* downstream, and every later step calls the downstream's step once; a run
\* that returns hands back the starting accumulator extended by the source
\* without its first max(0, limit) items: the whole source when limit <= 0,
\* nothing when limit >= len.
C20_Drop ==
    \A n \in (-1)..MaxLimit :
        (transducer = <<drop(n)>> /\ reducer = Appending)
          => /\ \A i \in TopCalls("step") :
                   IF Ordinal(i) <= n
                   THEN log[i].acc = Plain(init.value)
                   ELSE log[i].acc # Plain(init.value)
             /\ Cardinality(CallsAt("step", 2))
                   = Max(0, Cardinality(TopCalls("step")) - Max(n, 0))
             /\ pc = "done" =>
                   /\ result = Plain(init.value \o DropFirst(iterable.items, n))
                   /\ pos = Len(iterable.items)

C20_Witness ==
    /\ pc = "done" /\ transducer = <<drop(1)>> /\ reducer = Appending /\ ~init.given
    /\ Len(iterable.items) = 3
    /\ result = Plain(SubSeq(iterable.items, 2, 3))

C20_WitnessAll ==
    /\ pc = "done" /\ transducer = <<drop(2)>> /\ reducer = Appending /\ ~init.given
    /\ Len(iterable.items) = 2
    /\ result = Plain(<<>>)

\* ---------------------------------------------------------------- C14
\* transduce(op, xs, appending()) as a function of op and xs, for an operator
\* that never returns a Reduced box: initial, one step per item, complete
RECURSIVE FeedAll(_, _, _)
FeedAll(p, d, xs) ==
    IF xs = <<>> \/ d.exc # NoExc THEN d
    ELSE FeedAll(p, ThenStep(p, 0, Head(xs), d), Tail(xs))

Outcome(op, xs) ==
    ThenComplete(<<op, Appending>>, 0,
                 FeedAll(<<op, Appending>>,
                         InitialAt(<<op, Appending>>, <<FreshState, FreshState>>, 1), xs)).acc.val

Lasts(k) == {<<take_last(k)>>, <<drop_last(k)>>}

\* C14: for a source of length L and 0 <= k <= L, the result n of
\* take_last(k) and the result m of drop_last(k) over that source (one of
\* them being the run at hand, over the list collector) have lengths k and
\* L - k, and m followed by n is the source.
C14_LastAlgebra ==
    \A k \in 0..MaxLen :
        (pc = "done" /\ transducer \in Lasts(k) /\ reducer = Appending /\ ~init.given
            /\ k <= Len(iterable.items))
          => LET xs == iterable.items
                 n == IF transducer = <<take_last(k)>> THEN result.val
                      ELSE Outcome(take_last(k), xs)
                 m == IF transducer = <<drop_last(k)>> THEN result.val
                      ELSE Outcome(drop_last(k), xs)
             IN /\ Len(n) = k
                /\ Len(m) = Len(xs) - k
                /\ m \o n = xs

C14_Witness ==
    /\ pc = "done" /\ transducer = <<take_last(1)>> /\ reducer = Appending /\ ~init.given
    /\ Len(iterable.items) = 3 /\ iterable.items[3] # iterable.items[1]
    /\ result.val = <<iterable.items[3]>>
    /\ Outcome(drop_last(1), iterable.items) = SubSeq(iterable.items, 1, 2)

\* ---------------------------------------------------------------- C15
\* C15: over the list or the tuple collector holding L items at complete
\* (those of init, then those of the source), a run that returns hands back,
\* in source order: with take_last(k), the last k items when 1 <= k <= L,
\* all of them when k > L, none when k <= 0; with drop_last(k), all of them
\* when k <= 0, the first L - k when 0 < k < L, none when k >= L.
C15_LastCases ==
    \A k \in LastLimits :
        (pc = "done" /\ transducer \in Lasts(k) /\ reducer \in {Appending, Conjoining}
            /\ init.type = "seq")
          => LET all == init.value \o iterable.items
                 L == Len(all)
             IN IF transducer = <<take_last(k)>>
                THEN result = Plain(IF k <= 0 THEN <<>>
                                    ELSE IF k > L THEN all
                                    ELSE SubSeq(all, L - k + 1, L))
                ELSE result = Plain(IF k <= 0 THEN all
                                    ELSE IF k >= L THEN <<>>
                                    ELSE SubSeq(all, 1, L - k))

C15_Witness ==
    /\ pc = "done" /\ transducer = <<drop_last(2)>> /\ reducer = Conjoining /\ ~init.given
    /\ Len(iterable.items) = 3
    /\ result = Plain(<<iterable.items[1]>>)

C15_WitnessBeyond ==
    /\ pc = "done" /\ transducer = <<take_last(MaxLen + 1)>> /\ reducer = Appending
    /\ Len(iterable.items) = MaxLen
    /\ result = Plain(init.value \o iterable.items) /\ init.given

\* ---------------------------------------------------------------- C16
\* no len() (an int, a Reduced box) or no slicing (a set, a dict)
Unsliceable(acc) == acc.red > 0 \/ acc.type # "seq"

\* C16 as stated: when the accumulator given to the complete of a take_last
\* or drop_last has no length or cannot be sliced, that complete does not
\* raise, and the downstream's complete is called on that very accumulator.
C16_FallbackUnchanged ==
    \A i \in DOMAIN pipeline, c \in DOMAIN log :
        (pipeline[i].kind \in {"take_last", "drop_last"}
            /\ log[c].ev = "complete" /\ log[c].lvl = i /\ Unsliceable(log[c].acc))
          => /\ ~RaisedBy("slice")
             /\ \E d \in CallsAt("complete", i + 1) : d > c
             /\ \A d \in CallsAt("complete", i + 1) : d > c => log[d].acc = log[c].acc

\* ---------------------------------------------------------------- C13
\* C13 as stated: the atransduce run of a call ends as its transduce run
\* did: both return, with equal results, or both raise.
C13_SyncAsyncEquivalent ==
    (previous # NoRun /\ pc \in {"done", "raised"})
        => /\ pc = previous.pc
           /\ pc = "done" => result = previous.result

\* the same holds, exception classes included, unless a coroutine function
\* raises TypeError
C13_UnlessCoroutineTypeError ==
    (previous # NoRun /\ pc \in {"done", "raised"}
        /\ ~(env.coro /\ env.excType = "TypeError"))
        => /\ pc = previous.pc
           /\ result = previous.result
           /\ exc.type = previous.exc.type /\ exc.cause = previous.exc.cause

\* ---------------------------------------------------------------- C21
\* each item of s, n times in a row
RECURSIVE Repeated(_, _)
Repeated(s, n) ==
    IF s = <<>> THEN <<>>
    ELSE [k \in 1..n |-> Head(s)] \o Repeated(Tail(s), n)

\* C21: with repeating(count), count >= 0, over the list or the tuple
\* collector, every step of the operator calls the downstream's step count
\* times, before the next item is pulled; a run that returns hands back the
\* starting accumulator extended by each source item count times in a row,
\* in source order: nothing when count is 0.
C21_Repeating ==
    \A n \in 0..MaxLimit :
        (transducer = <<repeating(n)>> /\ reducer \in {Appending, Conjoining})
          => /\ \A i \in TopCalls("step") :
                   Cardinality({j \in CallsAt("step", 2) : Within(i, j)}) = n
             /\ \A j \in CallsAt("step", 2), k \in Own("pull") :
                   \A i \in TopCalls("step") : (Within(i, j) /\ k > i) => k > j
             /\ pc = "done" =>
                   /\ result = Plain(init.value \o Repeated(iterable.items, n))
                   /\ pos = Len(iterable.items)

C21_Witness ==
    /\ pc = "done" /\ transducer = <<repeating(2)>> /\ reducer = Appending /\ ~init.given
    /\ Len(iterable.items) = 2 /\ iterable.items[1] # iterable.items[2]
    /\ result = Plain(<<iterable.items[1], iterable.items[1],
                        iterable.items[2], iterable.items[2]>>)

C21_WitnessZero ==
    /\ pc = "done" /\ transducer = <<repeating(0)>> /\ reducer = Appending /\ ~init.given
    /\ Len(iterable.items) = 3
    /\ result = Plain(<<>>)

\* ---------------------------------------------------------------- C22
\* position of the last call of ev on reducer lvl before position j of the
\* history (0: none)
LastBefore(j, ev, lvl) ==
    LET S == {i \in 1..(j - 1) : log[i].ev = ev /\ log[i].lvl = lvl}
    IN IF S = {} THEN 0 ELSE CHOOSE i \in S : \A k \in S : k <= i

\* number of calls of ev on reducer lvl after position a and before position j
Between(a, j, ev, lvl) ==
    Cardinality({i \in (a + 1)..(j - 1) : log[i].ev = ev /\ log[i].lvl = lvl})

\* C22: enumerating(start) hands the k-th item that reaches it, counting
\* from 0 since its last initial() (since its construction when initial()
\* was never called), downstream as the pair (start + k, item): one
\* delegation per step call, consecutive indices, restarting at start on
\* every initial(), in a first call and in a second call on the same object.
C22_Enumerating ==
    \A s \in Starts :
        (transducer = <<enumerating(s)>> /\ pipeline # <<>>)
          => /\ \A i \in TopCalls("step") :
                   Cardinality({j \in CallsAt("step", 2) : Within(i, j)}) = 1
             /\ \A j \in CallsAt("step", 2) :
                   LET k == Between(LastBefore(j, "initial", 1), j, "step", 2)
                       n == Between(LastBefore(j, "call", 0), j, "pull", 0)
                   IN /\ Len(log[j].acc.val) > 0
                      /\ log[j].acc.val[Len(log[j].acc.val)] = <<s + k, iterable.items[n]>>
             /\ (pc = "done" /\ ~init.given) =>
                   result = Plain([k \in 1..Len(iterable.items) |-> <<s + k - 1, iterable.items[k]>>])

\* enumerating(1) over three items, called a second time on the same
\* object: the second call numbers the items 1, 2, 3 again
C22_Witness ==
    /\ transducer = <<enumerating(1)>> /\ ~init.given
    /\ previous.pc = "done" /\ pc = "done"
    /\ Len(iterable.items) = 3
    /\ result = Plain(<<<<1, iterable.items[1]>>, <<2, iterable.items[2]>>, <<3, iterable.items[3]>>>>)

\* ---------------------------------------------------------------- C23
\* how a call ended: what it returned, or what it raised
Ended == [pc |-> pc, result |-> result, exc |-> exc]

\* C23 (as stated): a second transduce call on the same pipeline object over
\* the same source ends as the first did, for take, drop, nth, enumerating,
\* batching and expecting_single, whatever the first call left behind.
C23_ReuseEqual ==
    (previous # NoRun /\ pc \in {"done", "raised"}) => Ended = previous

\* C23 (what the code gives): the two calls end alike when the caller gives
\* no init, initial() being what resets the counters and buffers.
C23_ReuseEqualWithoutInit ==
    (previous # NoRun /\ pc \in {"done", "raised"} /\ ~init.given) => Ended = previous

\* take(2) over three items, twice on one object: the second call returns
\* the first two items again, although the first call stopped early
C23_Witness ==
    /\ transducer = <<take(2)>> /\ ~init.given /\ Len(iterable.items) = 3
    /\ previous.pc = "done" /\ pc = "done"
    /\ result = Plain(FirstN(iterable.items, 2))

\* expecting_single over two items, twice on one object: both calls raise
C23_WitnessRaised ==
    /\ transducer = <<expecting_single>> /\ ~init.given /\ Len(iterable.items) = 2
    /\ previous.pc = "raised" /\ pc = "raised"

\* ---------------------------------------------------------------- C24
\* what no operator, a mapping, a filtering or a take hands downstream of a
\* sequence of items
Processed(ops, s) ==
    IF ops = <<>> THEN s
    ELSE IF ops[1].kind = "take" THEN FirstN(s, Max(ops[1].n, 0))
    ELSE ApplyOp(ops[1], s)

\* C24: when the caller gives init, transduce and atransduce make no
\* initial() call and start from init; over the list collector, with no
\* operator or with one mapping, filtering or take, a run that returns hands
\* back init followed by the processed items in source order.
C24_StartsFromInit ==
    init.given =>
        /\ \A i \in DOMAIN log : log[i].ev # "initial"
        /\ pc = "enter" => accumulator = Object(init.type, init.value)
        /\ (/\ pc = "done" /\ reducer = Appending /\ Len(transducer) <= 1
            /\ \A i \in DOMAIN transducer : transducer[i].kind \in {"mapping", "filtering", "take"})
              => result = Plain(init.value \o Processed(transducer, iterable.items))

\* init=[0] and three items through no operator, under atransduce: the result
\* is 0 followed by the three items
C24_Witness ==
    /\ init.given /\ pc = "done" /\ transducer = <<>> /\ reducer = Appending /\ env.async
    /\ Len(iterable.items) = 3 /\ iterable.items[1] # iterable.items[2]
    /\ result = Plain(<<0>> \o iterable.items)

\* init=[0] and a doubling: the result is 0 followed by the doubled items
C24_WitnessMapping ==
    /\ init.given /\ pc = "done" /\ transducer = <<mapping("double")>> /\ reducer = Appending
    /\ ~env.async /\ iterable.items = <<1, 2, 1>>
    /\ result = Plain(<<0, 2, 4, 2>>)

\* ---------------------------------------------------------------- C25
\* the pipeline as its constructors left it, given initial() and then one
\* step per item of xs, one after the other
Sequentially(xs) ==
    FeedAll(pipeline, InitialAt(pipeline, [k \in DOMAIN pipeline |-> Constructed(pipeline[k])], 1), xs)

\* C25: in one call of transduce or atransduce, however the turns of other
\* tasks fall, the k-th step is made after exactly k items were fetched and
\* before the next is, nothing is fetched while a step is due, and between
\* two items the accumulator, the counters and the buffers are those of
\* stepping the items fetched so far one after the other in source order:
\* take, enumerating and expecting_single have counted every item once, and
\* batching holds the items since its last full batch.
C25_InOrder ==
    /\ \A i \in TopCalls("step") : Between(0, i, "pull", 0) = Ordinal(i)
    /\ \A q \in Own("pull") : Between(0, q, "step", 1) = Between(0, q, "pull", 0)
    /\ pc = "step" => Cardinality(Own("pull")) = Cardinality(TopCalls("step")) + 1
    /\ pc = "fetch" =>
          /\ Cardinality(TopCalls("step")) = pos
          /\ opstate = Sequentially(FirstN(iterable.items, pos)).st
          /\ accumulator = Sequentially(FirstN(iterable.items, pos)).acc
          /\ pipeline[1].kind = "take" => opstate[1].counter = pos
          /\ pipeline[1].kind = "enumerating" => opstate[1].counter = pipeline[1].n + pos
          /\ pipeline[1].kind = "expecting_single" => opstate[1].num_steps = pos
          /\ pipeline[1].kind = "batching" =>
                opstate[1].pending = SubSeq(iterable.items, pos - (pos % pipeline[1].n) + 1, pos)

\* atransduce with batching(2) has fetched three items, other tasks having
\* run before a fetch and before a step: one item is pending
C25_Witness ==
    /\ env.async /\ pc = "fetch" /\ pos = 3 /\ transducer = <<batching(2)>>
    /\ opstate[1].pending = <<iterable.items[3]>>
    /\ \E i, j \in DOMAIN log :
          /\ i < j /\ log[i].ev = "other" /\ log[j].ev = "other"
          /\ log[i + 1].ev = "pull" /\ log[j + 1].ev = "step"

\* ---------------------------------------------------------------- C26
\* C26: in a call that returns, every reducer of the chain, the terminal
\* collector included, was given exactly one complete() call, and as many
\* initial() calls as the orchestrator made on the pipeline: one, or none
\* when the caller gave init.
C26_OnceDownTheChain ==
    pc = "done" =>
        \A lvl \in DOMAIN pipeline :
            /\ Cardinality(CallsAt("initial", lvl)) = IF init.given THEN 0 ELSE 1
            /\ Cardinality(CallsAt("complete", lvl)) = 1

\* C26 for the calls in which the orchestrator calls initial() itself: the
\* part the code keeps with the library's collectors
C26_OnceEachWithoutInit == ~init.given => C26_OnceDownTheChain

\* ---------------------------------------------------------------- C27
\* the outermost operator of the call
Outer == transducer[1]

\* the items of the source that the predicate of first_true accepts
Accepted ==
    IF Outer.kind = "first_true"
    THEN {k \in DOMAIN iterable.items : Transform(Outer.fn, iterable.items[k])}
    ELSE {}

\* the number of items after which the outermost operator stops the call:
\* take(n) after n items (after one when n <= 0), nth(n) after n, first_true
\* at the first item its predicate accepts; 0 when it never stops
StopsAfter ==
    CASE Outer.kind = "take" -> Max(Outer.n, 1)
      [] Outer.kind = "nth"  -> Max(Outer.n, 0)
      [] Accepted # {}       -> CHOOSE k \in Accepted : \A j \in Accepted : k <= j
      [] OTHER               -> 0

\* the outermost operator can stop, and neither the source nor a callable
\* raises before it does
CanStop ==
    /\ StopsAfter >= 1
    /\ env.excType = "none"
    /\ iterable.failAt = 0 \/ iterable.failAt > StopsAfter

\* what the stopped call returns after the starting accumulator
Stopped ==
    CASE Outer.kind = "take" -> [k \in 1..Max(Outer.n, 0) |-> ItemAt(k)]
      [] StopsAfter >= 1   -> <<ItemAt(StopsAfter)>>
      [] OTHER             -> <<>>

\* C27: over a source that never ends, a call whose outermost operator can
\* stop (take(n) for any n, nth(n) for n >= 1, first_true when some item
\* satisfies the predicate) comes to return, having pulled finitely many
\* items -- as many as the operator needs -- and returns the result.
C27_Terminates ==
    (iterable.endless /\ CanStop) =>
        <>(pc = "done" /\ pos = StopsAfter /\ result = Plain(init.value \o Stopped))

\* take(2) over an endless source has returned after two pulls
C27_Witness ==
    /\ iterable.endless /\ transducer = <<take(2)>> /\ pc = "done" /\ pos = 2
    /\ Len(iterable.items) = 1 /\ result = Plain(<<iterable.items[1], iterable.items[1]>>)

\* first_true(odd) over an endless source whose third item is the first odd one
C27_WitnessFirstTrue ==
    /\ iterable.endless /\ transducer = <<first_true("odd")>> /\ pc = "done" /\ pos = 3
    /\ result = Plain(init.value \o <<iterable.items[3]>>)

\* ---------------------------------------------------------------- C28
\* C28: whatever operators are composed, stopping ones nested in one another
\* or below batching and nth, a call that returns hands back a plain
\* accumulator, never a Reduced box, and no reducer of the chain is ever
\* given a Reduced box as the accumulator of step or of complete.
C28_NeverReduced ==
    /\ pc = "done" => result.red = 0
    /\ \A i \in DOMAIN log :
          /\ log[i].ev = "step" => ~log[i].boxed
          /\ log[i].ev = "complete" => log[i].acc.red = 0

\* ---------------------------------------------------------------- C29
\* C29: once a reducer's step has returned a Reduced box, the reducer above
\* it does not call its step again; so with compose(repeating(r), take(n))
\* over the list collector a call whose source raises nothing returns the
\* first n items of the source's items repeated r times each.
C29_NoStepAfterReduced ==
    /\ \A lvl \in DOMAIN pipeline :
          \A i, j \in CallsAt("step", lvl) : (lvl > 1 /\ i < j) => ~log[i].red
    /\ (/\ pc \in {"done", "raised"} /\ iterable.failAt = 0
        /\ Len(transducer) = 2 /\ transducer[1].kind = "repeating" /\ transducer[2].kind = "take")
          => /\ pc = "done"
             /\ result = Plain(FirstN(Repeated(iterable.items, transducer[1].n), transducer[2].n))

\* ---------------------------------------------------------------- C30
\* the items of xs in batches of n, the last one partial
RECURSIVE Chunks(_, _)
Chunks(xs, n) ==
    IF Len(xs) <= n THEN (IF xs = <<>> THEN <<>> ELSE <<xs>>)
    ELSE <<SubSeq(xs, 1, n)>> \o Chunks(SubSeq(xs, n + 1, Len(xs)), n)

\* the final accumulator of batching(n) or nth(n, default) over the list
\* collector: every batch, the partial one included; the n-th item or the default
Final(op, xs) ==
    IF op.kind = "batching" THEN Chunks(xs, op.n)
    ELSE IF op.n <= Len(xs) THEN <<xs[op.n]>> ELSE <<op.default>>

\* the window take_last(k) / drop_last(k) keeps of s
Window(w, s) ==
    IF w.kind = "take_last" THEN SubSeq(s, Len(s) - Min(w.n, Len(s)) + 1, Len(s))
    ELSE SubSeq(s, 1, Len(s) - Min(w.n, Len(s)))

\* C30: with take_last(k) or drop_last(k), k >= 0, outermost over batching
\* or nth, a call that returns hands back the window of the final
\* accumulator, the one that holds batching's partial last batch or nth's
\* default; under take_last(k) it never holds more than k elements.
C30_WindowsFinal ==
    (pc = "done" /\ Len(transducer) = 2 /\ transducer[1].kind \in {"take_last", "drop_last"})
        => /\ result = Plain(Window(transducer[1], Final(transducer[2], iterable.items)))
           /\ transducer[1].kind = "take_last" => Len(result.val) <= transducer[1].n

\* ---------------------------------------------------------------- C31
\* C31: in every finished call, by return or by raising in a step, in the
\* source or in complete, the exit hook was invoked exactly once for each
\* invocation of the enter hook, and at no moment more often than enter.
C31_ExitOncePerEnter ==
    /\ Cardinality(Own("exit")) <= Cardinality(Own("enter"))
    /\ pc \in {"done", "raised"} => Cardinality(Own("exit")) = Cardinality(Own("enter"))

\* ---------------------------------------------------------------- C32
\* C32: in a call that returns, the exit hook is invoked only after
\* complete() has returned: every step, and every call complete makes (the
\* late step of batching's partial batch included), lies between enter and exit.
C32_ExitAfterComplete ==
    (pc = "done" /\ HasHooks(pipeline)) =>
        \A e \in Own("exit") :
            /\ \A c \in DOMAIN log : log[c].ev \in {"step", "complete"} => c < e
            /\ \E b \in Own("enter") : b < e

\* ---------------------------------------------------------------- C33
\* an exception of the item loop is in flight: raised by a step or by the
\* fetch of the next item
LoopError == exc # NoExc /\ (exc.by = "_process_items" \/ exc.by = "source")

\* C33: once a step or the fetch of an item has raised, the exception stays
\* in flight until the call raises it: the orchestrator calls no step, pulls
\* no item, and calls no complete (before or after), the only call it still
\* makes being the exit hook.
C33_NoRetry ==
    [][/\ LoopError' => /\ pc' \in {"with_exit", "handler", "raised"}
                        /\ TopCalls("complete")' = {}
       /\ LoopError => /\ exc' = exc /\ pos' = pos /\ opstate' = opstate
                       /\ \A i \in DOMAIN log' : i > Len(log) => log'[i].ev = "exit"]_vars

\* a step raised on the second of three items: the call has raised, the
\* third item was never pulled, complete was never called
C33_Witness ==
    /\ pc = "raised" /\ LoopError /\ exc.causeBy = "expecting_single"
    /\ Len(iterable.items) = 3 /\ pos = 2
    /\ Cardinality(TopCalls("step")) = 2 /\ TopCalls("complete") = {}

\* the fetch of the second item raised
C33_WitnessSource ==
    /\ pc = "raised" /\ LoopError /\ exc.causeBy = "source"
    /\ pos = 1 /\ Cardinality(TopCalls("step")) = 1 /\ TopCalls("complete") = {}

\* ---------------------------------------------------------------- C34
\* the reducers of the chain that define hooks of their own
Holders == {i \in DOMAIN pipeline : pipeline[i].kind = "holding"}

\* C34: a reducer with enter / exit hooks of its own, wrapped by library
\* operators or not, has had its enter hook called before its first step,
\* and its exit hook called by the time the call has returned or raised.
C34_WrappedHooks ==
    \A h \in Holders :
        /\ \A s \in CallsAt("step", h) : \E e \in CallsAt("enter", h) : e < s
        /\ (pc \in {"done", "raised"} /\ CallsAt("step", h) # {}) => CallsAt("exit", h) # {}

\* ---------------------------------------------------------------- C35
\* the reducers of the chain that hold a user callable
Callers ==
    {i \in DOMAIN pipeline : pipeline[i].kind \in {"mapping", "filtering", "first_true"}}

\* C35: under atransduce, async_mapping, afiltering and afirst_true have
\* invoked their callable exactly once for each item that reached them,
\* plain function or coroutine function alike, and a call in which the
\* callable raised (a TypeError included) ends by raising.
C35_CalledOncePerItem ==
    env.async =>
        /\ \A i \in Callers : Cardinality(CallsAt("fn", i)) = Cardinality(CallsAt("step", i))
        /\ (pc \in {"done", "raised"} /\ \E i \in DOMAIN log : log[i].ev = "fnraise") => pc = "raised"

\* the same count under transduce, which the code keeps
C35_SyncCalledOncePerItem ==
    ~env.async => \A i \in Callers : Cardinality(CallsAt("fn", i)) = Cardinality(CallsAt("step", i))

\* ---------------------------------------------------------------- C36
\* a pipeline object driven alone over xs: d is what initial() and the steps
\* so far handed back; the loop ends at a Reduced box, at an exception or
\* with the source, and complete follows unless a step raised
RECURSIVE DriveAlone(_, _, _)
DriveAlone(p, d, xs) ==
    IF d.exc # NoExc THEN d
    ELSE IF IsReduced(d.acc) THEN ThenComplete(p, 0, [d EXCEPT !.acc = Value(d.acc)])
    ELSE IF xs = <<>> THEN ThenComplete(p, 0, d)
    ELSE DriveAlone(p, ThenStep(p, 0, Head(xs), d), Tail(xs))

\* how object k ends when no other object exists
Alone(k) ==
    LET p == compose(transducer, reducer)
    IN DriveAlone(p, InitialAt(p, [i \in DOMAIN p |-> Constructed(p[i])], 1), iterable[k])

\* C36: of two pipeline objects made by one factory value and driven in any
\* interleaving of their initial, step and complete calls, each returns
\* what it returns when driven alone, and raises when it raises alone.
C36_Independent ==
    \A k \in 1..2 :
        /\ pc[k] = "done" => (Alone(k).exc = NoExc /\ result[k] = Alone(k).acc)
        /\ pc[k] = "raised" => exc[k] = Alone(k).exc

\* two objects of take(2), the first over three items: both have returned
\* the first two items of their own source
C36_Witness ==
    /\ transducer = <<take(2)>> /\ Len(iterable[1]) = 3 /\ iterable[1][1] # iterable[1][2]
    /\ pc = <<"done", "done">>
    /\ result[1] = Plain(FirstN(iterable[1], 2)) /\ result[2] = Plain(FirstN(iterable[2], 2))

\* ---------------------------------------------------------------- C37
\* s begins with t
Prefix(t, s) == Len(t) <= Len(s) /\ t = SubSeq(s, 1, Len(t))

\* C37: async_from_iterable(xs) has at every moment yielded the first items
\* xs produces, in order, has taken at most one item more out of xs than it
\* has yielded, and signals exhaustion when it has yielded them all: for a
\* list or a range and for a one-shot iterator alike.
C37_FromIterable ==
    iterable.kind = "from_iterable" =>
        /\ Prefix(result.val, iterable.source)
        /\ pos <= Len(result.val) + 1
        /\ pc = "exhausted" => result.val = iterable.source

\* ---------------------------------------------------------------- C38
\* C38: async_range(start, stop, step) has at every moment yielded the first
\* integers of range(start, stop, step), whatever the sign and the size of
\* the step, and signals exhaustion when it has yielded them all.
C38_AsyncRange ==
    iterable.kind = "range" =>
        /\ Prefix(result.val, iterable.source)
        /\ pc = "exhausted" => result.val = iterable.source

\* with a step of 1 the integers are those of the range
C38_StepOne ==
    (iterable.kind = "range" /\ iterable.held.step = 1) =>
        /\ Prefix(result.val, iterable.source)
        /\ pc = "exhausted" => result.val = iterable.source

\* ---------------------------------------------------------------- C39
\* levels of the pipeline that are batching reducers
Batchers == {i \in DOMAIN pipeline \cap DOMAIN opstate : pipeline[i].kind = "batching"}

\* the last protocol call made was ev on reducer lvl
LastCall(ev, lvl) == log # <<>> /\ log[Len(log)].ev = ev /\ log[Len(log)].lvl = lvl

\* number of items the caller's init put in the accumulator
Given == IF init.given THEN Len(init.value) ELSE 0

\* C39: between any two protocol calls on batching(size) the buffer holds
\* fewer than size items; it is empty right after initial() and right after
\* a step that delegated a batch, and every batch that step has delegated to
\* the list collector holds exactly size items.
C39_PendingBelowSize ==
    \A i \in Batchers :
        /\ Len(opstate[i].pending) <= pipeline[i].n - 1
        /\ (\E l \in DOMAIN pipeline : LastCall("initial", l)) => opstate[i].pending = <<>>
        /\ (pc \in {"fetch", "with_exit"} /\ LastCall("step", i + 1)) => opstate[i].pending = <<>>
        /\ (pc \in {"fetch", "with_exit"} /\ exc = NoExc /\ accumulator.type = "seq"
              /\ pipeline[i + 1].kind = "appending") =>
               \A k \in DOMAIN accumulator.val :
                   k > Given => Len(accumulator.val[k]) = pipeline[i].n

\* a second call on the same reducer object has just delegated a full batch
\* and starts the next one with an empty buffer
C39_Witness ==
    /\ previous.pc = "done" /\ pc = "fetch" /\ transducer = <<batching(2)>>
    /\ LastCall("step", 2) /\ opstate[1].pending = <<>>
    /\ Len(accumulator.val) > Given

\* the buffer is one short of a batch between two steps
C39_WitnessPartial ==
    /\ pc = "fetch" /\ transducer = <<batching(MaxLimit)>>
    /\ Len(opstate[1].pending) = MaxLimit - 1 /\ LastCall("step", 1)
====
